---- MODULE Spec2Model ----
(***************************************************************************)
(* Block-tree terms dictionary reader of golucene (package index):         *)
(*   - the segment terms cursor SegmentTermsEnum.SeekExact with its frame  *)
(*     stack, its arc stack and the term buffer        (specification Spec)*)
(*   - the dictionary reader's constructor newBlockTreeTermsReader, its    *)
(*     Terms() and Close()                         (specification SpecCtor)*)
(*   - two cursors of one field reader, made by FieldReader.Iterator, with *)
(*     their SeekExact calls interleaved           (specification SpecPair)*)
(*   - the entry loop of scanToTermLeaf with fillTerm on a loaded leaf     *)
(*     block                                       (specification SpecScan)*)
(*   - one cursor on a dictionary three blocks deep, DictStale             *)
(*                                                 (specification SpecDeep)*)
(*   - the operations of SeekExact on the frame stack (push, back, rewind, *)
(*     scanToFloorFrame, loadBlock, leaf scan) in any order                *)
(*                                                (specification SpecFrame)*)
(*   - frame(ord) for any ord, with pushFrame     (specification SpecStack)*)
(*   - the reference count of IndexReaderImpl (decRef, Close, ensureOpen)  *)
(*     called by two goroutines, statement by statement                    *)
(*                                                 (specification SpecRefs)*)
(*   - the reader context built by CompositeReaderContextBuilder           *)
(*                                              (specification SpecContext)*)
(* A Go panic is an outcome of the call ("panic"); a cursor that panicked  *)
(* is not used again, except in specification SpecRecover, where the       *)
(* caller recovers the panic.                                              *)
(***************************************************************************)
EXTENDS Integers, Sequences, FiniteSets, TLC

VARIABLES dict, cur, call, seeks, rd, inp, pair, scan, fr, refs, ctx

vars == <<dict, cur, call, seeks, rd, inp, pair, scan, fr, refs, ctx>>

(***************************************************************************)
(* Bounds of the model.                                                    *)
(***************************************************************************)
MaxLen == 2
MaxSeeks == 3
MaxFields == 2
MaxCount == 1
MaxClones == 2
MaxPairSeeks == 3
MaxRest == 2
MaxDeepSeeks == 4
MaxFrameOps == 5

\* calls made on the index readers, by all goroutines together
MaxCalls == 3

\* sub-readers of a composite reader
MaxSubs == 2

(***************************************************************************)
(* Program constants.                                                      *)
(***************************************************************************)
BTT_OUTPUT_FLAGS_NUM_BITS == 2
BTT_OUTPUT_FLAG_IS_FLOOR == 1
BTT_OUTPUT_FLAG_HAS_TERMS == 2
BTT_VERSION_START == 0
BTT_VERSION_APPEND_ONLY == 1
BTT_VERSION_CURRENT == BTT_VERSION_APPEND_ONLY
BTT_INDEX_VERSION_START == 0
BTT_INDEX_VERSION_APPEND_ONLY == 1
BTT_INDEX_VERSION_CURRENT == BTT_INDEX_VERSION_APPEND_ONLY
SuffixBufLen == 128
StatBufLen == 64
FloorBufLen == 32
StaticOrd == -1

Min(a, b) == IF a < b THEN a ELSE b

Zeros(n) == [i \in 1..n |-> 0]

\* s[from .. to) with 0-based offsets, as a Go slice expression
Slice(s, from, to) == [i \in 1..(to - from) |-> s[from + i]]

\* copy(dst, src): overwrites the first min(len) bytes of dst
CopyInto(dst, src) ==
  [i \in 1..Len(dst) |-> IF i <= Len(src) THEN src[i] ELSE dst[i]]

\* int(a - b) on two bytes: the subtraction is done in uint8 and wraps
ByteSub(a, b) == (a - b) % 256

\* code >>> n and code & m on the small non-negative codes of the model
Shr(code, n) == code \div (2 ^ n)

Bit(code, mask) == (code \div mask) % 2 = 1

(***************************************************************************)
(* Byte-stream primitives (store.ByteArrayDataInput / store.IndexInput):   *)
(* a vInt / vLong has 7 payload bits per byte, MSB = continuation.         *)
(***************************************************************************)
RECURSIVE VDecode(_, _, _, _)
VDecode(bytes, pos, shift, acc) ==
  IF pos >= Len(bytes)
  THEN [err |-> TRUE, val |-> 0, pos |-> pos]
  ELSE LET b == bytes[pos + 1]
       IN  IF b >= 128
           THEN VDecode(bytes, pos + 1, shift * 128, acc + (b % 128) * shift)
           ELSE [err |-> FALSE, val |-> acc + b * shift, pos |-> pos + 1]

ReadVLong(bytes, pos) == VDecode(bytes, pos, 1, 0)

ReadByte(bytes, pos) ==
  IF pos >= Len(bytes)
  THEN [err |-> TRUE, val |-> 0, pos |-> pos]
  ELSE [err |-> FALSE, val |-> bytes[pos + 1], pos |-> pos + 1]

(***************************************************************************)
(* Dictionaries: the terms of a field, its FST index (one entry per prefix *)
(* that has a path in the FST: the arc reaching it, with its output, its   *)
(* final output and whether it is final) and the bytes of the tim file.    *)
(* Block code = fp * 4 + 2 * hasTerms + isFloor.                           *)
(***************************************************************************)
IndexArc(final, out, nfo) == [final |-> final, out |-> out, nfo |-> nfo]

\* One leaf block at the root holding every term; the file goes on after it.
DictLeaf ==
  [ terms |-> {<<1>>, <<1, 2>>, <<2>>},
    index |-> (<<>> :> IndexArc(TRUE, <<>>, <<6>>)),
    tim   |-> <<63, 7, 15, 1, 1, 2, 1, 2, 1, 2, 3, 1, 1, 1, 0>> \o Zeros(200) ]

\* Root block with sub-blocks only; the terms live in the block of prefix 1.
DictFan ==
  [ terms |-> {<<1, 1>>, <<1, 2>>, <<1, 2, 1>>},
    index |-> (<<>> :> IndexArc(TRUE, <<>>, <<60>>))
              @@ (<<1>> :> IndexArc(TRUE, <<6>>, <<>>)),
    tim   |-> <<63, 7, 15, 1, 1, 1, 2, 2, 2, 1, 3, 1, 1, 1, 0,
                3, 6, 3, 1, 14, 0, 0>> ]

\* The index reaches the block of prefix 1 2 through a non-final arc.
DictDeep ==
  [ terms |-> {<<1, 2, 1>>, <<1, 2, 2>>, <<1, 2, 3>>},
    index |-> (<<>> :> IndexArc(TRUE, <<>>, <<56>>))
              @@ (<<1>> :> IndexArc(FALSE, <<6>>, <<>>))
              @@ (<<1, 2>> :> IndexArc(TRUE, <<>>, <<>>)),
    tim   |-> <<63, 7, 13, 1, 1, 1, 2, 1, 3, 3, 1, 1, 1, 0,
                3, 8, 5, 1, 2, 13, 0, 0>> ]

\* Two levels of blocks without terms above the leaf blocks.
DictTwoLevel ==
  [ terms |-> {<<1, 1, 1>>, <<1, 1, 2>>, <<1, 2, 1>>, <<1, 2, 2>>},
    index |-> (<<>> :> IndexArc(TRUE, <<>>, <<124>>))
              @@ (<<1>> :> IndexArc(TRUE, <<>>, <<84>>))
              @@ (<<1, 1>> :> IndexArc(TRUE, <<6>>, <<>>))
              @@ (<<1, 2>> :> IndexArc(TRUE, <<46>>, <<>>)),
    tim   |-> <<63, 5, 9, 1, 1, 1, 2, 2, 1, 1, 0,
                5, 9, 1, 1, 1, 2, 2, 1, 1, 0,
                5, 12, 3, 1, 20, 3, 2, 10, 0, 0,
                3, 6, 3, 1, 10, 0, 0>> ]

\* Floor-split root: the first sub-block (labels < 3) holds one sub-block
\* pointer and no term, the second (labels >= 3) holds the terms 3 and 3 1.
DictFloor ==
  [ terms |-> {<<1, 1>>, <<1, 2>>, <<3>>, <<3, 1>>},
    index |-> (<<>> :> IndexArc(TRUE, <<>>, <<45, 1, 3, 15>>))
              @@ (<<1>> :> IndexArc(TRUE, <<6>>, <<>>)),
    tim   |-> <<63, 5, 9, 1, 1, 1, 2, 2, 1, 1, 0,
                2, 6, 3, 1, 10, 0, 0,
                5, 11, 1, 3, 2, 3, 1, 2, 1, 1, 0>> ]

\* Three levels of blocks without terms on the side of label 1 (prefixes
\* <<>>, 1 and 1 1); on the side of label 2 the first block below the root
\* is the one of prefix 2 1, reached through a non-final arc.
DictStale ==
  [ terms |-> {<<1, 1, 1, 1>>, <<1, 1, 1, 2>>, <<1, 1, 2, 1>>, <<1, 1, 2, 2>>,
               <<1, 2, 1>>, <<1, 2, 2>>, <<2, 1, 1, 1>>, <<2, 1, 1, 2>>,
               <<2, 1, 2, 1>>, <<2, 1, 2, 2>>},
    index |-> (<<>> :> IndexArc(TRUE, <<>>, <<196, 2>>))
              @@ (<<1>> :> IndexArc(TRUE, <<>>, <<156, 2>>))
              @@ (<<1, 1>> :> IndexArc(TRUE, <<>>, <<204, 1>>))
              @@ (<<1, 1, 1>> :> IndexArc(TRUE, <<6>>, <<>>))
              @@ (<<1, 1, 2>> :> IndexArc(TRUE, <<46>>, <<>>))
              @@ (<<1, 2>> :> IndexArc(TRUE, <<86>>, <<>>))
              @@ (<<2>> :> IndexArc(FALSE, <<>>, <<>>))
              @@ (<<2, 1>> :> IndexArc(TRUE, <<>>, <<244, 1>>))
              @@ (<<2, 1, 1>> :> IndexArc(TRUE, <<126>>, <<>>))
              @@ (<<2, 1, 2>> :> IndexArc(TRUE, <<166, 1>>, <<>>)),
    tim   |-> <<63, 5, 9, 1, 1, 1, 2, 2, 1, 1, 0,
                5, 9, 1, 1, 1, 2, 2, 1, 1, 0,
                5, 9, 1, 1, 1, 2, 2, 1, 1, 0,
                5, 9, 1, 1, 1, 2, 2, 1, 1, 0,
                5, 9, 1, 1, 1, 2, 2, 1, 1, 0,
                5, 12, 3, 1, 50, 3, 2, 40, 0, 0,
                5, 12, 3, 1, 30, 3, 2, 20, 0, 0,
                5, 12, 3, 1, 20, 3, 2, 50, 0, 0,
                5, 14, 3, 1, 10, 5, 2, 1, 20, 0, 0>> \o Zeros(200) ]

Dicts == <<DictLeaf, DictFan, DictDeep, DictTwoLevel, DictFloor>>

\* the dictionary of the run: one of Dicts, or DictStale
D == IF dict <= Len(Dicts) THEN Dicts[dict] ELSE DictStale

\* The labels that occur in the terms of the dictionaries, and the targets
\* of the seeks: every byte string over them of at most MaxLen bytes.
Labels ==
  UNION {{t[i] : i \in 1..Len(t)} :
           t \in UNION {Dicts[k].terms : k \in 1..Len(Dicts)}}

Targets == UNION {[1..n -> Labels] : n \in 0..MaxLen}

(***************************************************************************)
(* FST runtime (util.FST), as the cursor uses it.                          *)
(***************************************************************************)
NoArc == [label |-> 0, node |-> <<>>, final |-> FALSE, out |-> <<>>,
          nfo |-> <<>>, found |-> FALSE]

MkArc(d, label, node) ==
  [label |-> label, node |-> node, final |-> d.index[node].final,
   out |-> d.index[node].out, nfo |-> d.index[node].nfo, found |-> TRUE]

\* FST.FirstArc: the arc of the empty prefix (label END_LABEL = -1)
FirstArc(d) == MkArc(d, -1, <<>>)

\* FST.FindTargetArc(label, from): the arc leaving from's node by label, or a
\* miss (found = FALSE)
FindTargetArc(d, label, from) ==
  LET node == Append(from.node, label)
  IN  IF node \in DOMAIN d.index THEN MkArc(d, label, node) ELSE NoArc

RECURSIVE PathOutput(_, _, _)
PathOutput(d, prefix, n) ==
  IF n = 0 THEN d.index[<<>>].out
  ELSE PathOutput(d, prefix, n - 1) \o d.index[SubSeq(prefix, 1, n)].out

\* util.GetFSTOutput: the output of an accepted input, "nil" otherwise
GetFSTOutput(d, prefix) ==
  IF prefix \in DOMAIN d.index /\ d.index[prefix].final
  THEN [nil |-> FALSE,
        bytes |-> PathOutput(d, prefix, Len(prefix)) \o d.index[prefix].nfo]
  ELSE [nil |-> TRUE, bytes |-> <<>>]

(***************************************************************************)
(* Frames (segmentTermsEnumFrame).  A frame's zero value has nextEnt = 0.  *)
(***************************************************************************)
newFrame(ord) ==
  [ ord |-> ord, hasTerms |-> FALSE, hasTermsOrig |-> FALSE, isFloor |-> FALSE,
    arcSet |-> FALSE, fp |-> 0, fpOrig |-> 0, fpEnd |-> 0,
    suffixBytes |-> Zeros(SuffixBufLen), suffixPos |-> 0,
    statBytes |-> Zeros(StatBufLen),
    floorData |-> Zeros(FloorBufLen), floorPos |-> 0,
    prefix |-> 0, entCount |-> 0, nextEnt |-> 0,
    isLastInFloor |-> FALSE, isLeafBlock |-> FALSE, lastSubFP |-> 0,
    nextFloorLabel |-> 0, numFollowFloorBlocks |-> 0, metaDataUpto |-> 0,
    termBlockOrd |-> 0, totalTermFreq |-> -1,
    startBytePos |-> 0, suffix |-> 0, subCode |-> 0 ]

\* numFollowFloorBlocks and nextFloorLabel read from the start of floorData
ReadFloorHead(f) ==
  LET n == ReadVLong(f.floorData, 0)
      b == ReadByte(f.floorData, n.pos)
  IN  [f EXCEPT !.numFollowFloorBlocks = n.val, !.nextFloorLabel = b.val,
                !.floorPos = b.pos]

setFloorData(f, source, pos) ==
  LET numBytes == Len(source) - pos
      buf == IF numBytes > Len(f.floorData) THEN Zeros(numBytes) ELSE f.floorData
  IN  ReadFloorHead([f EXCEPT !.floorData =
                        CopyInto(buf, Slice(source, pos, Len(source)))])

\* rewind without floorDataReader.Rewind(): the floor values are read where
\* the floor cursor stands
rewindKeepsFloorCursor(f) ==
  LET g == [f EXCEPT !.fp = f.fpOrig, !.nextEnt = -1, !.hasTerms = f.hasTermsOrig]
      n == ReadVLong(g.floorData, g.floorPos)
      b == ReadByte(g.floorData, n.pos)
  IN  IF f.isFloor
      THEN [g EXCEPT !.numFollowFloorBlocks = n.val, !.nextFloorLabel = b.val,
                     !.floorPos = b.pos]
      ELSE g

rewind(f) ==
  LET g == [f EXCEPT !.fp = f.fpOrig, !.nextEnt = -1, !.hasTerms = f.hasTermsOrig]
  IN  IF f.isFloor THEN ReadFloorHead(g) ELSE g

(***************************************************************************)
(* The cursor (SegmentTermsEnum).  stack[k + 1] is the frame of ord k and  *)
(* arcs[k + 1] is arcs[k] of the code; currentFrame holds the ord of the   *)
(* current frame (StaticOrd for staticFrame).  ret, why and the l* fields  *)
(* are the running call: its outcome so far and its local variables.       *)
(***************************************************************************)
newSegmentTermsEnum(d) ==
  [ term |-> <<>>, termExists |-> FALSE, eof |-> FALSE,
    targetBeforeCurrentLength |-> 0, validIndexPrefix |-> 0,
    currentFrame |-> StaticOrd, staticFrame |-> newFrame(StaticOrd),
    stack |-> <<>>, arcs |-> <<FirstArc(d)>>,
    inOpen |-> FALSE, inClones |-> 0, inPos |-> 0, timOps |-> 0,
    arcLookups |-> 0,
    ret |-> "none", why |-> "",
    lArc |-> NoArc, lOutput |-> <<>>, lUpto |-> 0,
    lStatus |-> "", loadErr |-> FALSE,
    stop |-> "none", landHasTerms |-> FALSE, moved |-> "" ]

Running(c) == c.ret = "none"

Return(c, r, why) == [c EXCEPT !.ret = r, !.why = why]

Panic(c, why) == Return(c, "panic", why)

CurFrame(c) ==
  IF c.currentFrame = StaticOrd THEN c.staticFrame ELSE c.stack[c.currentFrame + 1]

\* frame(ord) with every new slot made by newFrame(e, ord)
frameNewSlotsSameOrd(c, ord) ==
  LET c1 == IF ord < Len(c.stack) THEN c
            ELSE [c EXCEPT !.stack =
                    [i \in 1..(ord + 1) |->
                        IF i <= Len(c.stack) THEN c.stack[i] ELSE newFrame(ord)]]
  IN  IF c1.stack[ord + 1].ord # ord THEN Panic(c1, "assert fail") ELSE c1

\* SegmentTermsEnum.frame(ord): the stack grown so that stack[ord] exists,
\* every new slot i made by newFrame(e, i); then the assertion on stack[ord]
frame(c, ord) ==
  LET c1 == IF ord < Len(c.stack) THEN c
            ELSE [c EXCEPT !.stack =
                    [i \in 1..(ord + 1) |->
                        IF i <= Len(c.stack) THEN c.stack[i] ELSE newFrame(i - 1)]]
  IN  IF c1.stack[ord + 1].ord # ord THEN Panic(c1, "assert fail") ELSE c1

\* SegmentTermsEnum.getArc(ord): the arc stack grown so that arcs[ord] exists
getArc(c, ord) ==
  IF ord < Len(c.arcs) THEN c
  ELSE [c EXCEPT !.arcs =
          [i \in 1..(ord + 1) |-> IF i <= Len(c.arcs) THEN c.arcs[i] ELSE NoArc]]

\* a pushFrameAt that leaves the prefix of a new frame as it was
pushFrameAtKeepsPrefix(c, f0, fp, length) ==
  LET f == [f0 EXCEPT !.arcSet = TRUE]
  IN  IF f.fpOrig = fp /\ f.nextEnt # -1
      THEN LET g == IF f.prefix > c.targetBeforeCurrentLength THEN rewind(f) ELSE f
               c1 == [c EXCEPT !.stack[f.ord + 1] = g]
           IN  IF length # g.prefix THEN Panic(c1, "assert fail: pushFrameAt length")
               ELSE c1
      ELSE [c EXCEPT !.stack[f.ord + 1] =
              [f EXCEPT !.nextEnt = -1, !.termBlockOrd = 0,
                        !.fpOrig = fp, !.fp = fp, !.lastSubFP = -1]]

\* a pushFrameAt that rewinds every frame it reuses
pushFrameAtAlwaysRewinds(c, f0, fp, length) ==
  LET f == [f0 EXCEPT !.arcSet = TRUE]
  IN  IF f.fpOrig = fp /\ f.nextEnt # -1
      THEN LET g == rewind(f)
               c1 == [c EXCEPT !.stack[f.ord + 1] = g]
           IN  IF length # g.prefix THEN Panic(c1, "assert fail: pushFrameAt length")
               ELSE c1
      ELSE [c EXCEPT !.stack[f.ord + 1] =
              [f EXCEPT !.nextEnt = -1, !.prefix = length, !.termBlockOrd = 0,
                        !.fpOrig = fp, !.fp = fp, !.lastSubFP = -1]]

\* pushFrameAt, on the frame f that pushFrame has prepared; currentFrame is
\* set by the caller of pushFrame
pushFrameAt(c, f0, fp, length) ==
  LET f == [f0 EXCEPT !.arcSet = TRUE]
  IN  IF f.fpOrig = fp /\ f.nextEnt # -1
      THEN LET g == IF f.prefix > c.targetBeforeCurrentLength THEN rewind(f) ELSE f
               c1 == [c EXCEPT !.stack[f.ord + 1] = g]
           IN  IF length # g.prefix THEN Panic(c1, "assert fail: pushFrameAt length")
               ELSE c1
      ELSE [c EXCEPT !.stack[f.ord + 1] =
              [f EXCEPT !.nextEnt = -1, !.prefix = length, !.termBlockOrd = 0,
                        !.fpOrig = fp, !.fp = fp, !.lastSubFP = -1]]

\* pushFrame(arc, frameData, length) followed by the caller's assignment of
\* the result to currentFrame
\* pushFrame that takes the file pointer above one flag bit only
pushFrameOneFlagBit(c, frameData, length) ==
  LET code == ReadVLong(frameData, 0)
      ord == 1 + c.currentFrame
      c1 == frame(c, ord)
      f0 == c1.stack[ord + 1]
      f1 == [f0 EXCEPT !.hasTerms = Bit(code.val, BTT_OUTPUT_FLAG_HAS_TERMS),
                       !.hasTermsOrig = Bit(code.val, BTT_OUTPUT_FLAG_HAS_TERMS),
                       !.isFloor = Bit(code.val, BTT_OUTPUT_FLAG_IS_FLOOR)]
      f2 == IF f1.isFloor THEN setFloorData(f1, frameData, code.pos) ELSE f1
      c2 == pushFrameAt(c1, f2, Shr(code.val, 1), length)
  IN  IF code.err THEN Return(c, "error", "pushFrame: ReadVLong")
      ELSE IF Running(c2) THEN [c2 EXCEPT !.currentFrame = ord] ELSE c2

pushFrame(c, frameData, length) ==
  LET code == ReadVLong(frameData, 0)
      ord == 1 + c.currentFrame
      c1 == frame(c, ord)
      f0 == c1.stack[ord + 1]
      f1 == [f0 EXCEPT !.hasTerms = Bit(code.val, BTT_OUTPUT_FLAG_HAS_TERMS),
                       !.hasTermsOrig = Bit(code.val, BTT_OUTPUT_FLAG_HAS_TERMS),
                       !.isFloor = Bit(code.val, BTT_OUTPUT_FLAG_IS_FLOOR)]
      f2 == IF f1.isFloor THEN setFloorData(f1, frameData, code.pos) ELSE f1
      c2 == pushFrameAt(c1, f2, Shr(code.val, BTT_OUTPUT_FLAGS_NUM_BITS), length)
  IN  IF code.err THEN Return(c, "error", "pushFrame: ReadVLong")
      ELSE IF Running(c2) THEN [c2 EXCEPT !.currentFrame = ord] ELSE c2

(***************************************************************************)
(* Reads of the cursor's clone of the tim input.  Every Seek / Read call   *)
(* on the clone counts in timOps (the counting wrapper of the input).      *)
(***************************************************************************)
\* IndexInput.ReadVInt at the clone's position
InReadVInt(c, tim) ==
  LET r == ReadVLong(tim, c.inPos)
  IN  [c  |-> [c EXCEPT !.timOps = @ + 1,
                        !.inPos = IF r.err THEN @ ELSE r.pos],
       err |-> r.err, val |-> r.val]

\* IndexInput.ReadBytes(buf): fills the WHOLE buffer, len(buf) bytes
InReadBytes(c, tim, buf) ==
  LET n == Len(buf)
      err == c.inPos + n > Len(tim)
  IN  [c   |-> [c EXCEPT !.timOps = @ + 1,
                         !.inPos = IF err THEN @ ELSE @ + n],
       err |-> err,
       buf |-> IF err THEN buf ELSE Slice(tim, c.inPos, c.inPos + n)]

\* PostingsReaderBase.ReadTermsBlock: a vInt length and that many bytes;
\* its error is not looked at by loadBlock
ReadTermsBlock(c, tim) ==
  LET n == InReadVInt(c, tim)
      ok == ~n.err /\ n.c.inPos + n.val <= Len(tim)
  IN  IF n.err THEN n.c
      ELSE [n.c EXCEPT !.timOps = @ + 1, !.inPos = IF ok THEN @ + n.val ELSE @]

SetCur(c, f) == [c EXCEPT !.stack[c.currentFrame + 1] = f]

\* loadBlock, from the stats length on (lines 1102-1129)
loadBlockStats(c, tim) ==
  LET n == InReadVInt(c, tim)
      f == CurFrame(c)
      sb == IF Len(f.statBytes) < n.val THEN Zeros(n.val) ELSE f.statBytes
      rb == InReadBytes(n.c, tim, sb)
      f1 == [f EXCEPT !.statBytes = rb.buf]
      f2 == [f1 EXCEPT !.metaDataUpto = 0, !.termBlockOrd = 0, !.nextEnt = 0,
                       !.lastSubFP = -1]
      c3 == ReadTermsBlock(SetCur(rb.c, f2), tim)
  IN  IF n.err THEN n.c
      ELSE IF rb.err THEN [SetCur(rb.c, f1) EXCEPT !.loadErr = TRUE]
      ELSE SetCur(c3, [f2 EXCEPT !.fpEnd = c3.inPos])

\* loadBlock, from the suffix header on (lines 1081-1100)
loadBlockSuffixes(c, tim) ==
  LET n == InReadVInt(c, tim)
      f == CurFrame(c)
      numBytes == Shr(n.val, 1)
      sb == IF Len(f.suffixBytes) < numBytes THEN Zeros(numBytes) ELSE f.suffixBytes
      rb == InReadBytes(n.c, tim, sb)
      f1 == [f EXCEPT !.isLeafBlock = Bit(n.val, 1), !.suffixBytes = rb.buf]
  IN  IF rb.err THEN [SetCur(rb.c, f1) EXCEPT !.loadErr = TRUE]
      ELSE loadBlockStats(SetCur(rb.c, [f1 EXCEPT !.suffixPos = 0]), tim)

\* SegmentTermsEnum.initIndexInput: the cursor clones tim the first time it
\* needs it; inClones counts the clones this cursor has taken
initIndexInput(c) ==
  IF c.inOpen THEN c ELSE [c EXCEPT !.inOpen = TRUE, !.inClones = @ + 1]

\* loadBlock without the test of nextEnt: the block is read at every call
loadBlockAlways(c, tim) ==
  LET c0 == initIndexInput(c)
      f == CurFrame(c)
      c1 == [c0 EXCEPT !.timOps = @ + 1, !.inPos = f.fp]
      n == InReadVInt(c1, tim)
      f1 == [f EXCEPT !.entCount = Shr(n.val, 1)]
      f2 == [f1 EXCEPT !.isLastInFloor = Bit(n.val, 1)]
  IN  IF n.err THEN [n.c EXCEPT !.loadErr = TRUE]
      ELSE IF f1.entCount <= 0
           THEN Panic(SetCur(n.c, f1), "assert fail: entCount")
      ELSE IF f2.arcSet /\ f2.isLastInFloor /\ f2.isFloor
           THEN Panic(SetCur(n.c, f2), "assert fail: isLastInFloor")
      ELSE loadBlockSuffixes(SetCur(n.c, f2), tim)

\* segmentTermsEnumFrame.loadBlock on the current frame.  SeekExact drops
\* the error loadBlock returns; loadErr records that one was returned.
loadBlock(c, tim) ==
  LET c0 == initIndexInput(c)
      f == CurFrame(c)
      c1 == [c0 EXCEPT !.timOps = @ + 1, !.inPos = f.fp]
      n == InReadVInt(c1, tim)
      f1 == [f EXCEPT !.entCount = Shr(n.val, 1)]
      f2 == [f1 EXCEPT !.isLastInFloor = Bit(n.val, 1)]
  IN  IF f.nextEnt # -1 THEN c0
      ELSE IF n.err THEN [n.c EXCEPT !.loadErr = TRUE]
      ELSE IF f1.entCount <= 0
           THEN Panic(SetCur(n.c, f1), "assert fail: entCount")
      ELSE IF f2.arcSet /\ f2.isLastInFloor /\ f2.isFloor
           THEN Panic(SetCur(n.c, f2), "assert fail: isLastInFloor")
      ELSE loadBlockSuffixes(SetCur(n.c, f2), tim)

\* segmentTermsEnumFrame.scanToFloorFrame on the current frame: the walk
\* over the floor data is not implemented
scanToFloorFrame(c, target) ==
  LET f == CurFrame(c)
  IN  IF ~f.isFloor \/ Len(target) <= f.prefix THEN c
      ELSE IF target[f.prefix + 1] < f.nextFloorLabel THEN c
      ELSE IF f.numFollowFloorBlocks = 0 THEN Panic(c, "assert fail: floor")
      ELSE Panic(c, "not implemented yet: scanToFloorFrame")

\* segmentTermsEnumFrame.fillTerm on the current frame
fillTerm(c) ==
  LET f == CurFrame(c)
      termLength == f.prefix + f.suffix
      t == IF Len(c.term) < termLength
           THEN c.term \o Zeros(termLength - Len(c.term)) ELSE c.term
      n == Min(f.suffix, Len(f.suffixBytes) - f.startBytePos)
  IN  [c EXCEPT !.term =
         [i \in 1..Len(t) |->
            IF i > f.prefix /\ i <= f.prefix + n
            THEN f.suffixBytes[f.startBytePos + (i - f.prefix)] ELSE t[i]]]

\* lines 1267-1284: the bytes of the entry at bytePos are compared with the
\* target from targetPos on; "before", "after" or "equal" is the branch the
\* byte loop leaves by
RECURSIVE CompareEntry(_, _, _, _, _, _)
CompareEntry(sb, bytePos, target, targetPos, targetLimit, termLen) ==
  LET more == targetPos < targetLimit
      cmp == IF more THEN ByteSub(sb[bytePos + 1], target[targetPos + 1])
             ELSE termLen - Len(target)
  IN  IF more /\ bytePos >= Len(sb) THEN "index out of range: suffixBytes"
      ELSE IF ~more /\ targetPos # targetLimit THEN "assert fail: targetPos"
      ELSE IF cmp < 0 THEN "before"
      ELSE IF cmp > 0 THEN "after"
      ELSE IF ~more THEN "equal"
      ELSE CompareEntry(sb, bytePos + 1, target, targetPos + 1, targetLimit,
                        termLen)

\* the entry loop without the test nextEnt == entCount after an entry that
\* is before the target: the scan goes on behind the last entry
RECURSIVE scanToTermLeafLoopNoEnd(_, _, _)
scanToTermLeafLoopNoEnd(c, target, exactOnly) ==
  LET f == CurFrame(c)
      n == ReadVLong(f.suffixBytes, f.suffixPos)
      termLen == f.prefix + n.val
      f1 == [f EXCEPT !.nextEnt = @ + 1, !.suffix = n.val,
                      !.startBytePos = n.pos, !.suffixPos = n.pos + n.val]
      c1 == SetCur(c, f1)
      r == CompareEntry(f.suffixBytes, n.pos, target, f.prefix,
                        Min(Len(target), termLen), termLen)
  IN  IF n.err
      THEN Return(SetCur(c, [f EXCEPT !.nextEnt = @ + 1]), "error", "suffix length")
      ELSE IF r = "before"
           THEN IF f1.nextEnt > f1.entCount
                THEN [(IF exactOnly THEN fillTerm(c1) ELSE c1)
                        EXCEPT !.lStatus = "END"]
                ELSE scanToTermLeafLoopNoEnd(c1, target, exactOnly)
      ELSE IF r = "after" THEN [c1 EXCEPT !.lStatus = "NOT_FOUND"]
      ELSE IF r = "equal"
           THEN IF ~c1.termExists THEN Panic(c1, "assert fail: termExists")
                ELSE [fillTerm(c1) EXCEPT !.lStatus = "FOUND"]
      ELSE Panic(c1, r)

\* lines 1248-1339: the entry loop of scanToTermLeaf on the current frame,
\* which stands behind the call of prefixMatches
RECURSIVE scanToTermLeafLoop(_, _, _)
scanToTermLeafLoop(c, target, exactOnly) ==
  LET f == CurFrame(c)
      n == ReadVLong(f.suffixBytes, f.suffixPos)
      termLen == f.prefix + n.val
      f1 == [f EXCEPT !.nextEnt = @ + 1, !.suffix = n.val,
                      !.startBytePos = n.pos, !.suffixPos = n.pos + n.val]
      c1 == SetCur(c, f1)
      r == CompareEntry(f.suffixBytes, n.pos, target, f.prefix,
                        Min(Len(target), termLen), termLen)
  IN  IF n.err
      THEN Return(SetCur(c, [f EXCEPT !.nextEnt = @ + 1]), "error", "suffix length")
      ELSE IF r = "before"
           THEN IF f1.nextEnt = f1.entCount
                THEN [(IF exactOnly THEN fillTerm(c1) ELSE c1)
                        EXCEPT !.lStatus = "END"]
                ELSE scanToTermLeafLoop(c1, target, exactOnly)
      ELSE IF r = "after" THEN [c1 EXCEPT !.lStatus = "NOT_FOUND"]
      ELSE IF r = "equal"
           THEN IF ~c1.termExists THEN Panic(c1, "assert fail: termExists")
                ELSE [fillTerm(c1) EXCEPT !.lStatus = "FOUND"]
      ELSE Panic(c1, r)

\* segmentTermsEnumFrame.prefixMatches
prefixMatches(c, target) == Panic(c, "not implemented yet: prefixMatches")

\* segmentTermsEnumFrame.scanToTermLeaf on the current frame: the entry loop
\* (lines 1248-1339) stands behind the call of prefixMatches
scanToTermLeaf(c, target, exactOnly) ==
  LET f == CurFrame(c)
      c1 == SetCur([c EXCEPT !.termExists = TRUE], [f EXCEPT !.subCode = 0])
  IN  IF f.nextEnt = -1 THEN Panic(c, "assert fail: scan of an unloaded frame")
      ELSE IF f.nextEnt = f.entCount
           THEN [(IF exactOnly THEN fillTerm(c1) ELSE c1) EXCEPT !.lStatus = "END"]
      ELSE prefixMatches(c1, target)

scanToTermNonLeaf(c, target, exactOnly) ==
  Panic(c, "not implemented yet: scanToTermNonLeaf")

scanToTerm(c, target, exactOnly) ==
  IF CurFrame(c).isLeafBlock THEN scanToTermLeaf(c, target, exactOnly)
  ELSE scanToTermNonLeaf(c, target, exactOnly)

(***************************************************************************)
(* printSeekState: the assertions it makes on the frames 0..currentFrame.  *)
(* The result is "" when they all pass, the panic otherwise.               *)
(***************************************************************************)
FrameCode(f) ==
  f.fp * (2 ^ BTT_OUTPUT_FLAGS_NUM_BITS)
    + (IF f.hasTerms THEN BTT_OUTPUT_FLAG_HAS_TERMS ELSE 0)
    + (IF f.isFloor THEN BTT_OUTPUT_FLAG_IS_FLOOR ELSE 0)

RECURSIVE SeekStateFault(_, _, _, _)
SeekStateFault(c, d, ord, isSeekFrame) ==
  LET f == c.stack[ord + 1]
      out == GetFSTOutput(d, SubSeq(c.term, 1, f.prefix))
  IN  IF f.prefix > Len(c.term) THEN "slice of term beyond its length"
      ELSE IF isSeekFrame /\ ~f.arcSet THEN "assert fail: seek frame without arc"
      ELSE IF out.nil THEN "seek state is broken: prefix is not final in index"
      ELSE IF isSeekFrame /\ ~f.isFloor /\ ReadVLong(out.bytes, 0).val # FrameCode(f)
           THEN "seek state is broken: output code"
      ELSE IF ord = c.currentFrame THEN ""
      ELSE SeekStateFault(c, d, ord + 1,
                          isSeekFrame /\ f.prefix # c.validIndexPrefix)

printSeekState(c, d) ==
  IF c.currentFrame = StaticOrd THEN c
  ELSE LET fault == SeekStateFault(c, d, 0, TRUE)
       IN  IF fault = "" THEN c ELSE Panic(c, fault)

(***************************************************************************)
(* SeekExact, lines 565-580: the term buffer is given room (its length is  *)
(* kept), eof is cleared, the seek state is printed.                       *)
(***************************************************************************)
SeekStart(c, d) ==
  printSeekState(
    [c EXCEPT !.ret = "none", !.why = "", !.eof = FALSE, !.lStatus = "",
              !.loadErr = FALSE, !.stop = "none", !.landHasTerms = FALSE,
              !.moved = "",
              !.targetBeforeCurrentLength = c.currentFrame], d)

(***************************************************************************)
(* SeekExact, lines 593-638: the first compare loop of the reuse path, on  *)
(* r = the locals targetUpto, cmp, lastFrame (its ord), arc and output.    *)
(***************************************************************************)
\* a first compare loop that re-uses no arc of the previous seek
ReuseLoopNoReuse(c, target, targetLimit, r) == r

RECURSIVE ReuseLoop(_, _, _, _)
ReuseLoop(c, target, targetLimit, r) ==
  IF r.upto >= targetLimit THEN r
  ELSE LET cmp == ByteSub(c.term[r.upto + 1], target[r.upto + 1])
           arc == c.arcs[r.upto + 2]
       IN  IF cmp # 0 THEN [r EXCEPT !.cmp = cmp]
           ELSE IF r.upto + 2 > Len(c.arcs)
                THEN [r EXCEPT !.fault = "index out of range: arcs"]
           ELSE IF arc.label # target[r.upto + 1]
                THEN [r EXCEPT !.fault = "assert fail: arc.label"]
           ELSE IF arc.final /\ r.last + 2 > Len(c.stack)
                THEN [r EXCEPT !.fault = "index out of range: stack"]
           ELSE ReuseLoop(c, target, targetLimit,
                  [r EXCEPT !.cmp = 0, !.arc = arc, !.output = @ \o arc.out,
                            !.last = IF arc.final THEN @ + 1 ELSE @,
                            !.upto = @ + 1])

\* a compare of the rest that never finds the two strings equal
RECURSIVE RestCmpNeverEqual(_, _, _)
RestCmpNeverEqual(term, target, i) ==
  IF i >= Min(Len(term), Len(target))
  THEN (IF Len(term) <= Len(target) THEN -1 ELSE 1)
  ELSE IF ByteSub(term[i + 1], target[i + 1]) # 0
       THEN ByteSub(term[i + 1], target[i + 1])
       ELSE RestCmpNeverEqual(term, target, i + 1)

\* lines 640-665: the rest of the two strings is compared for the order only
RECURSIVE RestCmp(_, _, _)
RestCmp(term, target, i) ==
  IF i >= Min(Len(term), Len(target)) THEN Len(term) - Len(target)
  ELSE IF ByteSub(term[i + 1], target[i + 1]) # 0
       THEN ByteSub(term[i + 1], target[i + 1])
       ELSE RestCmp(term, target, i + 1)

\* lines 583-693: the cursor is already seek'd; moved records the branch of
\* lines 667-692 the call took ("after": target after the current term,
\* "before": target before it, "same")
Reuse(c, target) ==
  LET arc0 == c.arcs[1]
      r0 == [upto |-> 0, cmp |-> 0, last |-> 0, arc |-> arc0,
             output |-> arc0.out, fault |-> ""]
      r == ReuseLoop(c, target, Min(Len(target), c.validIndexPrefix), r0)
      cmp == IF r.cmp = 0 THEN RestCmp(c.term, target, r.upto) ELSE r.cmp
      c1 == [c EXCEPT !.lArc = r.arc, !.lOutput = r.output, !.lUpto = r.upto]
      c2 == [c1 EXCEPT !.currentFrame = r.last]
  IN  IF ~arc0.final THEN Panic(c, "assert fail: first arc")
      ELSE IF Len(c.stack) = 0 THEN Panic(c, "index out of range: stack")
      ELSE IF c.validIndexPrefix > Len(c.term)
           THEN Panic(c, "assert fail: validIndexPrefix")
      ELSE IF r.fault # "" THEN Panic(c1, r.fault)
      ELSE IF cmp < 0 THEN [c2 EXCEPT !.moved = "after"]
      ELSE IF cmp > 0
           THEN SetCur([c2 EXCEPT !.targetBeforeCurrentLength = 0,
                                  !.moved = "before"],
                       rewind(CurFrame(c2)))
      ELSE IF Len(c.term) # Len(target) THEN Panic(c1, "assert fail: same length")
      ELSE IF c.termExists
           THEN Return([c1 EXCEPT !.moved = "same"], "true",
                       "target is same as current")
      ELSE [c1 EXCEPT !.moved = "same"]

\* a first seek that pushes the root frame and stays on the static frame
FreshStaysStatic(c, d) ==
  LET arc == FirstArc(d)
      c1 == [c EXCEPT !.targetBeforeCurrentLength = -1, !.arcs[1] = arc,
                      !.lArc = arc, !.lOutput = arc.out, !.lUpto = 0,
                      !.currentFrame = StaticOrd]
  IN  IF ~arc.final THEN Panic(c1, "assert fail: first arc")
      ELSE [pushFrame(c1, arc.out \o arc.nfo, 0) EXCEPT !.currentFrame = StaticOrd]

\* lines 694-713: first seek of the cursor, the root frame is pushed
Fresh(c, d) ==
  LET arc == FirstArc(d)
      c1 == [c EXCEPT !.targetBeforeCurrentLength = -1, !.arcs[1] = arc,
                      !.lArc = arc, !.lOutput = arc.out, !.lUpto = 0,
                      !.currentFrame = StaticOrd]
  IN  IF ~arc.final THEN Panic(c1, "assert fail: first arc")
      ELSE pushFrame(c1, arc.out \o arc.nfo, 0)

Position(c, d, target) ==
  IF ~Running(c) THEN c
  ELSE IF c.currentFrame # StaticOrd THEN Reuse(c, target)
  ELSE Fresh(c, d)

(***************************************************************************)
(* SeekExact, the end of the FST descent.  stop and landHasTerms record    *)
(* for the call where the descent stopped ("checked:" once the floor scan  *)
(* is over) and hasTerms of the current frame there.                       *)
(***************************************************************************)
\* lines 739-751 and 791-803: the block is loaded and scanned
LoadAndScan(c, d, target) ==
  LET c1 == loadBlock(c, d.tim)
      c2 == IF Running(c1) THEN scanToTerm(c1, target, TRUE) ELSE c1
  IN  IF ~Running(c2) THEN c2
      ELSE IF c2.lStatus = "FOUND" THEN Return(c2, "true", "FOUND")
      ELSE Return(c2, "false", c2.lStatus)

Landed(c, how) ==
  [c EXCEPT !.validIndexPrefix = CurFrame(c).prefix, !.stop = how,
            !.landHasTerms = CurFrame(c).hasTerms]

\* lines 724-751: FindTargetArc found no arc for targetLabel
IndexExhausted(c, d, target, targetLabel) ==
  LET c1 == scanToFloorFrame(Landed(c, "index exhausted"), target)
      c2 == [c1 EXCEPT !.stop = "checked: index exhausted"]
  IN  IF ~Running(c1) THEN c1
      ELSE IF ~CurFrame(c1).hasTerms
           THEN Return([c2 EXCEPT !.termExists = FALSE,
                                  !.term = Append(@, targetLabel)],
                       "false", "FAST NOT_FOUND")
      ELSE LoadAndScan(c2, d, target)

\* lines 779-803: every byte of the target was followed in the index
TargetExhausted(c, d, target) ==
  LET c1 == scanToFloorFrame(Landed(c, "target exhausted"), target)
      c2 == [c1 EXCEPT !.stop = "checked: target exhausted"]
  IN  IF ~Running(c1) THEN c1
      ELSE IF ~CurFrame(c1).hasTerms
           THEN IF c.lUpto > Len(c2.term)
                THEN Panic(c2, "slice of term beyond its length")
                ELSE Return([c2 EXCEPT !.termExists = FALSE,
                                       !.term = SubSeq(@, 1, c.lUpto)],
                            "false", "FAST NOT_FOUND")
      ELSE LoadAndScan(c2, d, target)

\* an arc followed without its label being copied into the term
FollowArcKeepsTerm(c, nextArc, targetLabel) ==
  LET c1 == [c EXCEPT !.arcs[c.lUpto + 2] = nextArc, !.lArc = nextArc]
      c2 == [c1 EXCEPT !.lOutput = @ \o nextArc.out, !.lUpto = @ + 1]
  IN  IF c.lUpto >= Len(c.term) THEN Panic(c1, "index out of range: term")
      ELSE IF nextArc.final
           THEN pushFrame(c2, c2.lOutput \o nextArc.nfo, c2.lUpto)
      ELSE c2

\* lines 752-775: the arc is followed, its label copied into term[targetUpto]
FollowArc(c, nextArc, targetLabel) ==
  LET c1 == [c EXCEPT !.arcs[c.lUpto + 2] = nextArc, !.lArc = nextArc]
      c2 == [c1 EXCEPT !.term[c.lUpto + 1] = targetLabel,
                       !.lOutput = @ \o nextArc.out, !.lUpto = @ + 1]
  IN  IF c.lUpto >= Len(c.term) THEN Panic(c1, "index out of range: term")
      ELSE IF nextArc.final
           THEN pushFrame(c2, c2.lOutput \o nextArc.nfo, c2.lUpto)
      ELSE c2

\* lines 718-777: the loop over the bytes of the target
RECURSIVE Descend(_, _, _)
Descend(c, d, target) ==
  IF ~Running(c) THEN c
  ELSE IF c.lUpto >= Len(target) THEN TargetExhausted(c, d, target)
  ELSE LET targetLabel == target[c.lUpto + 1]
           c1 == [getArc(c, 1 + c.lUpto) EXCEPT !.arcLookups = @ + 1]
           nextArc == FindTargetArc(d, targetLabel, c.lArc)
       IN  IF ~nextArc.found THEN IndexExhausted(c1, d, target, targetLabel)
           ELSE Descend(FollowArc(c1, nextArc, targetLabel), d, target)

\* the locals of the call go out of scope
EndCall(c) == [c EXCEPT !.lArc = NoArc, !.lOutput = <<>>, !.lUpto = 0]

SeekExact(c, d, target) ==
  EndCall(Descend(Position(SeekStart(c, d), d, target), d, target))

\* SegmentTermsEnum.Term(): the term buffer, a panic at eof
Term(c) == [panic |-> c.eof, bytes |-> c.term]

(***************************************************************************)
(* Specification Spec: one cursor of one field, SeekExact called on it.    *)
(***************************************************************************)
NoCall ==
  [n |-> 0, target |-> <<>>, prevTarget |-> <<>>, prevRet |-> "none",
   prevTerm |-> <<>>, prevValidIndexPrefix |-> 0, timOpsBefore |-> 0,
   inOpenBefore |-> FALSE, arcLookupsBefore |-> 0]

NoReader == [pc |-> "idle"]

\* no frame operation is being called
NoFrame == [op |-> "idle"]

\* no index reader has been made
NoRefs == [on |-> FALSE]

\* no reader context is being built
NoCtx == [on |-> FALSE]

\* no leaf block is being scanned
NoScan == [block |-> 0]

\* two cursor handles into a heap of cursor objects, none created yet; alone
\* holds, for each handle, the cursor that receives the same calls and no
\* others, order the handles in the order of their SeekExact calls
NoPair == [heap |-> <<>>, h |-> <<0, 0>>, alone |-> <<>>, order |-> <<>>]

Alive(c) == c.ret \notin {"panic", "error"}

Init ==
  /\ dict \in 1..Len(Dicts)
  /\ cur = newSegmentTermsEnum(Dicts[dict])
  /\ call = NoCall
  /\ seeks = 0
  /\ rd = NoReader
  /\ refs = NoRefs
  /\ ctx = NoCtx
  /\ inp = <<>>
  /\ pair = NoPair
  /\ scan = NoScan
  /\ fr = NoFrame

SeekExactCall(target) ==
  /\ seeks < MaxSeeks
  /\ Alive(cur)
  /\ cur' = SeekExact(cur, D, target)
  /\ call' = [n |-> call.n + 1, target |-> target, prevTarget |-> call.target,
              prevRet |-> cur.ret, prevTerm |-> cur.term,
              prevValidIndexPrefix |-> cur.validIndexPrefix,
              timOpsBefore |-> cur.timOps, inOpenBefore |-> cur.inOpen,
              arcLookupsBefore |-> cur.arcLookups]
  /\ seeks' = seeks + 1
  /\ UNCHANGED <<dict, rd, inp, pair, scan, fr, refs, ctx>>

Next == \E target \in Targets : SeekExactCall(target)

Spec == Init /\ [][Next]_vars

(***************************************************************************)
(* Specification SpecDeep: one cursor on the dictionary DictStale, whose   *)
(* blocks are three levels deep, with one more call than in Spec.          *)
(***************************************************************************)
InitDeep ==
  /\ dict = Len(Dicts) + 1
  /\ cur = newSegmentTermsEnum(DictStale)
  /\ call = NoCall
  /\ seeks = 0
  /\ rd = NoReader
  /\ refs = NoRefs
  /\ ctx = NoCtx
  /\ inp = <<>>
  /\ pair = NoPair
  /\ scan = NoScan
  /\ fr = NoFrame

DeepSeekExactCall(target) ==
  /\ seeks < MaxDeepSeeks
  /\ Alive(cur)
  /\ cur' = SeekExact(cur, D, target)
  /\ call' = [n |-> call.n + 1, target |-> target, prevTarget |-> call.target,
              prevRet |-> cur.ret, prevTerm |-> cur.term,
              prevValidIndexPrefix |-> cur.validIndexPrefix,
              timOpsBefore |-> cur.timOps, inOpenBefore |-> cur.inOpen,
              arcLookupsBefore |-> cur.arcLookups]
  /\ seeks' = seeks + 1
  /\ UNCHANGED <<dict, rd, inp, pair, scan, fr, refs, ctx>>

NextDeep == \E target \in Targets : DeepSeekExactCall(target)

SpecDeep == InitDeep /\ [][NextDeep]_vars

(***************************************************************************)
(* Specification SpecRecover: as Spec, and the caller may recover() a      *)
(* panic of SeekExact and go on using the cursor, in the state the panic   *)
(* left it in.                                                             *)
(***************************************************************************)
RecoverCall ==
  /\ seeks < MaxSeeks
  /\ cur.ret = "panic"
  /\ cur' = [cur EXCEPT !.ret = "recovered"]
  /\ UNCHANGED <<dict, call, seeks, rd, inp, pair, scan, fr, refs, ctx>>

NextRecover ==
  \/ \E target \in Targets : SeekExactCall(target)
  \/ RecoverCall

SpecRecover == Init /\ [][NextRecover]_vars

(***************************************************************************)
(* Specification SpecScan: the entry loop of scanToTermLeaf and fillTerm   *)
(* on a loaded leaf block.  The block, the target and the term buffer the  *)
(* cursor comes with are drawn from bounded sets; the loop is entered as   *)
(* it is when prefixMatches has returned true.                             *)
(***************************************************************************)
\* leaf blocks: the prefix of the block and the suffixes of its entries, in
\* the order of the terms
LeafBlocks ==
  << [prefix |-> <<1, 2, 3>>, suffixes |-> << <<>>, <<1>>, <<2>>, <<3>> >>],
     [prefix |-> <<>>, suffixes |-> << <<1>>, <<2, 1>>, <<3>> >>],
     [prefix |-> <<2>>, suffixes |-> << <<>>, <<1>> >>] >>

\* the bytes of a block's suffixes: each suffix after its length
RECURSIVE EncodeSuffixes(_)
EncodeSuffixes(ss) ==
  IF ss = <<>> THEN <<>>
  ELSE <<Len(Head(ss))>> \o Head(ss) \o EncodeSuffixes(Tail(ss))

\* the labels of the dictionaries and one label above them
ScanLabels == Labels \cup {Cardinality(Labels) + 1}

Rests == UNION {[1..n -> ScanLabels] : n \in 0..MaxRest}

\* the frame of block b as loadBlock leaves it, on top of a new cursor whose
\* term buffer holds term
LoadedLeaf(b, term) ==
  LET f == [newFrame(0) EXCEPT
              !.prefix = Len(b.prefix), !.entCount = Len(b.suffixes),
              !.nextEnt = 0, !.isLeafBlock = TRUE, !.hasTerms = TRUE,
              !.hasTermsOrig = TRUE, !.arcSet = TRUE, !.isLastInFloor = TRUE,
              !.suffixBytes = CopyInto(Zeros(SuffixBufLen),
                                       EncodeSuffixes(b.suffixes))]
  IN  [newSegmentTermsEnum(Dicts[1]) EXCEPT
         !.stack = <<f>>, !.currentFrame = 0, !.term = term, !.inOpen = TRUE,
         !.inClones = 1]

InitScan ==
  /\ dict = 1
  /\ cur = newSegmentTermsEnum(Dicts[1])
  /\ call = NoCall
  /\ seeks = 0
  /\ rd = NoReader
  /\ refs = NoRefs
  /\ ctx = NoCtx
  /\ inp = <<>>
  /\ pair = NoPair
  /\ fr = NoFrame
  /\ \E b \in 1..Len(LeafBlocks), t \in Rests, old \in Rests :
       scan = [block |-> b, target |-> LeafBlocks[b].prefix \o t,
               term0 |-> LeafBlocks[b].prefix \o old,
               c |-> LoadedLeaf(LeafBlocks[b], LeafBlocks[b].prefix \o old),
               called |-> FALSE]

\* lines 1233-1234 and 1248-1339 of scanToTermLeaf, exactOnly as SeekExact
\* passes it
ScanToTermLeafCall ==
  /\ scan.block # 0
  /\ ~scan.called
  /\ LET c1 == [scan.c EXCEPT !.termExists = TRUE]
         c2 == SetCur(c1, [CurFrame(c1) EXCEPT !.subCode = 0])
     IN  scan' = [scan EXCEPT !.c = scanToTermLeafLoop(c2, scan.target, TRUE),
                              !.called = TRUE]
  /\ UNCHANGED <<dict, cur, call, seeks, rd, inp, pair, fr, refs, ctx>>

NextScan == ScanToTermLeafCall

SpecScan == InitScan /\ [][NextScan]_vars

(***************************************************************************)
(* Specification SpecFrame: the operations SeekExact makes on the frames   *)
(* of a cursor (pushFrame, the move back to a frame of the common prefix,  *)
(* rewind, scanToFloorFrame, loadBlock, the entry loop of the leaf scan),  *)
(* called in any order on a cursor whose root frame has been pushed.       *)
(* fr.pre is the cursor before the last operation, fr.arg its argument.    *)
(***************************************************************************)
InitFrame ==
  /\ dict \in 1..(Len(Dicts) + 1)
  /\ cur = newSegmentTermsEnum(Dicts[1])
  /\ call = NoCall
  /\ seeks = 0
  /\ rd = NoReader
  /\ refs = NoRefs
  /\ ctx = NoCtx
  /\ inp = <<>>
  /\ pair = NoPair
  /\ scan = NoScan
  /\ fr = [c |-> Fresh(newSegmentTermsEnum(D), D),
           pre |-> newSegmentTermsEnum(D), op |-> "new", arg |-> <<>>, n |-> 0]

FrameOp(c, pre, op, arg) ==
  /\ fr' = [c |-> c, pre |-> pre, op |-> op, arg |-> arg, n |-> fr.n + 1]
  /\ UNCHANGED <<dict, cur, call, seeks, rd, inp, pair, scan, refs, ctx>>

\* after a load that returned an error the scan that follows panics (lines
\* 739-740 and 1229-1231): no operation follows on that cursor
FrameReady ==
  fr.op # "idle" /\ fr.n < MaxFrameOps /\ Running(fr.c) /\ ~fr.c.loadErr

\* lines 718-775: the arcs of node are followed from the prefix of the
\* current frame, node being the first prefix on the way that is final, and
\* its block is pushed above the current frame
FramePush(node, tbcl) ==
  /\ FrameReady
  /\ node \in DOMAIN D.index
  /\ D.index[node].final
  /\ Len(node) > CurFrame(fr.c).prefix
  /\ SubSeq(node, 1, CurFrame(fr.c).prefix)
       = SubSeq(fr.c.term, 1, CurFrame(fr.c).prefix)
  /\ \A k \in (CurFrame(fr.c).prefix + 1)..(Len(node) - 1) :
       ~D.index[SubSeq(node, 1, k)].final
  /\ tbcl >= -1 /\ tbcl < Len(fr.c.stack)
  /\ LET c0 == [fr.c EXCEPT !.targetBeforeCurrentLength = tbcl, !.term = node]
     IN  FrameOp(pushFrame(c0, GetFSTOutput(D, node).bytes, Len(node)), c0,
                 "push", node)

\* lines 671 and 678: the reuse path moves the cursor back to a frame
FrameBack(ord) ==
  /\ FrameReady
  /\ ord < fr.c.currentFrame
  /\ FrameOp([fr.c EXCEPT !.currentFrame = ord], fr.c, "back", <<>>)

\* line 679
FrameRewind ==
  /\ FrameReady
  /\ FrameOp(SetCur(fr.c, rewind(CurFrame(fr.c))), fr.c, "rewind", <<>>)

\* lines 730 and 781; scanToFloorFrame reads len(target) and target[prefix]
\* only, so the targets stop one byte after the prefix of the frame
FrameScanFloor(target) ==
  /\ FrameReady
  /\ Len(target) <= CurFrame(fr.c).prefix + 1
  /\ FrameOp(scanToFloorFrame(fr.c, target), fr.c, "scanFloor", target)

\* lines 739 and 791: SeekExact loads the block of a frame that has terms
FrameLoad ==
  /\ FrameReady
  /\ CurFrame(fr.c).hasTerms
  /\ FrameOp(loadBlock(fr.c, D.tim), fr.c, "load", <<>>)

\* lines 1233-1234 and 1248-1339: the entry loop on a loaded leaf block that
\* has entries left
FrameScanLeaf(target) ==
  /\ FrameReady
  /\ LET f == CurFrame(fr.c)
         c1 == SetCur([fr.c EXCEPT !.termExists = TRUE], [f EXCEPT !.subCode = 0])
     IN  /\ f.hasTerms /\ f.isLeafBlock /\ ~fr.c.loadErr
         /\ f.nextEnt # -1 /\ f.nextEnt < f.entCount
         /\ Len(target) >= f.prefix
         /\ FrameOp(scanToTermLeafLoop(c1, target, TRUE), fr.c, "scanLeaf", target)

\* lines 476-492: frame(ord) called for any ord, also above len(stack)
FrameGet(ord) ==
  /\ FrameReady
  /\ FrameOp(frame(fr.c, ord), fr.c, "frame", <<ord>>)

NextFrame ==
  \/ \E node \in DOMAIN D.index, tbcl \in (-1)..MaxFrameOps :
       FramePush(node, tbcl)
  \/ \E ord \in 0..MaxFrameOps : FrameBack(ord)
  \/ FrameRewind
  \/ \E target \in Targets : FrameScanFloor(target)
  \/ FrameLoad
  \/ \E target \in Targets : FrameScanLeaf(target)

SpecFrame == InitFrame /\ [][NextFrame]_vars

(***************************************************************************)
(* Specification SpecStack: the frame stack of a cursor under frame(ord)   *)
(* called for any ord, together with the callers that move the cursor      *)
(* over the stack (pushFrame, which calls frame(1 + currentFrame.ord), and *)
(* the move back to a frame below).                                        *)
(***************************************************************************)
NextStack ==
  \/ \E ord \in 0..MaxFrameOps : FrameGet(ord)
  \/ \E node \in DOMAIN D.index, tbcl \in (-1)..MaxFrameOps :
       FramePush(node, tbcl)
  \/ \E ord \in 0..MaxFrameOps : FrameBack(ord)

SpecStack == InitFrame /\ [][NextStack]_vars

(***************************************************************************)
(* Specification SpecPair: two cursors of one field reader, their          *)
(* SeekExact calls interleaved.  Cursors are objects of a heap; a handle   *)
(* is an index into it, 0 for nil.                                         *)
(***************************************************************************)
\* an Iterator that hands back the cursor it is given to reuse
IteratorReuses(heap, d, reuse) ==
  IF reuse # 0 THEN [heap |-> heap, handle |-> reuse]
  ELSE [heap |-> Append(heap, newSegmentTermsEnum(d)), handle |-> Len(heap) + 1]

\* FieldReader.Iterator(reuse): a new cursor object, whatever reuse is
Iterator(heap, d, reuse) ==
  [heap |-> Append(heap, newSegmentTermsEnum(d)), handle |-> Len(heap) + 1]

InitPair ==
  /\ dict \in 1..Len(Dicts)
  /\ cur = newSegmentTermsEnum(Dicts[dict])
  /\ call = NoCall
  /\ seeks = 0
  /\ rd = NoReader
  /\ refs = NoRefs
  /\ ctx = NoCtx
  /\ inp = <<>>
  /\ pair = [NoPair EXCEPT !.alone = <<cur, cur>>]
  /\ scan = NoScan
  /\ fr = NoFrame

IteratorCall(i) ==
  /\ pair.h[i] = 0
  /\ \E reuse \in {0, pair.h[3 - i]} :
       LET it == Iterator(pair.heap, D, reuse)
       IN  pair' = [pair EXCEPT !.heap = it.heap, !.h[i] = it.handle]
  /\ UNCHANGED <<dict, cur, call, seeks, rd, inp, scan, fr, refs, ctx>>

PairSeekExactCall(i, target) ==
  /\ pair.h[i] # 0
  /\ Len(pair.order) < MaxPairSeeks
  /\ Alive(pair.heap[pair.h[i]])
  /\ Alive(pair.alone[i])
  /\ pair' = [pair EXCEPT !.heap[pair.h[i]] = SeekExact(@, D, target),
                          !.alone[i] = SeekExact(@, D, target),
                          !.order = Append(@, i)]
  /\ UNCHANGED <<dict, cur, call, seeks, rd, inp, scan, fr, refs, ctx>>

NextPair ==
  \/ \E i \in 1..2 : IteratorCall(i)
  \/ \E i \in 1..2, target \in Targets : PairSeekExactCall(i, target)

SpecPair == InitPair /\ [][NextPair]_vars

(***************************************************************************)
(* The dictionary reader (BlockTreeTermsReader).  An input is a file of    *)
(* the directory: opened says that OpenInput returned it, open that it was *)
(* not closed since, closes counts the Close() calls on it.  The values    *)
(* read from the files are inputs of the steps; a read can fail.           *)
(***************************************************************************)
NilInput ==
  [name |-> "", opened |-> FALSE, open |-> FALSE, closes |-> 0, clones |-> 0]

OpenInput(name) ==
  [name |-> name, opened |-> TRUE, open |-> TRUE, closes |-> 0, clones |-> 0]

\* a Clone() that closes the input it is taken from
CloneClosesSource(x) == [x EXCEPT !.open = FALSE, !.closes = @ + 1]

\* IndexInput.Clone(), seen from the input that is cloned: clones counts the
\* clones taken
CloneInput(x) == [x EXCEPT !.clones = @ + 1]

CloseInput(x) ==
  IF x.opened THEN [x EXCEPT !.open = FALSE, !.closes = @ + 1] ELSE x

NoErr == [kind |-> "none", about |-> <<>>]

Error(kind, about) == [kind |-> kind, about |-> about]

\* fieldInfos.byNumber: field 1 is indexed DOCS_ONLY, field 2 with freqs
byNumber ==
  (1 :> [name |-> "a", docsOnly |-> TRUE])
    @@ (2 :> [name |-> "b", docsOnly |-> FALSE])

FieldNumbers == DOMAIN byNumber

FieldNames == {byNumber[n].name : n \in FieldNumbers} \cup {"c"}

NoFields == [n \in {} |-> 0]

\* the zero value of the struct FieldReader, lines 325-337
ZeroFieldReader ==
  [name |-> "", numTerms |-> 0, sumTotalTermFreq |-> 0, sumDocFreq |-> 0,
   docCount |-> 0, rootBlockFP |-> 0, rootCode |-> <<>>, index |-> FALSE]

NoEntry ==
  [read |-> FALSE, name |-> "", docsOnly |-> FALSE, numTerms |-> 0,
   numBytes |-> 0, sumTotalTermFreq |-> 0, sumDocFreq |-> 0, docCount |-> 0,
   duplicate |-> FALSE, prior |-> ZeroFieldReader]

NoHeader == [read |-> FALSE, version |-> 0]

\* the last Terms() call: its argument, whether the name was in the map
\* and with which reader, and what the call returned
NoTerms ==
  [called |-> FALSE, field |-> "", registered |-> FALSE,
   expected |-> ZeroFieldReader,
   result |-> [nil |-> TRUE, reader |-> ZeroFieldReader]]

\* lines 109-113; header, entry and terms record what the steps read and
\* what the last Terms() returned
NewReader ==
  [pc |-> "new", in |-> NilInput, indexIn |-> NilInput,
   postings |-> [inits |-> 0, closes |-> 0], version |-> 0,
   fields |-> NoFields, numFields |-> 0, i |-> 0, dirReads |-> 0,
   success |-> FALSE, err |-> NoErr, panic |-> "",
   timHeader |-> NoHeader, tipHeader |-> NoHeader, entry |-> NoEntry,
   terms |-> NoTerms]

\* lines 316-323: closes tim and the postings reader, forgets the fields
Close(r) ==
  [r EXCEPT !.in = CloseInput(@), !.postings.closes = @ + 1,
            !.fields = NoFields]

\* the deferred cleanup that closes the reader only, not the index input
CleanupReaderOnly(r) == IF r.success THEN r ELSE Close(r)

\* lines 121-130: the deferred cleanup, run when the constructor returns or
\* panics before success is set
Cleanup(r) ==
  IF r.success THEN r ELSE Close([r EXCEPT !.indexIn = CloseInput(@)])

\* return fp, err
Fail(r, e) == Cleanup([r EXCEPT !.pc = "failed", !.err = e])

PanicCtor(r, msg) == Cleanup([r EXCEPT !.pc = "panicked", !.panic = msg])

VersionsMatchAlways(indexVersion, version) == TRUE

\* line 149
VersionsMatch(indexVersion, version) == indexVersion = version

\* lines 271-283 and 285-297: the codec header is checked and, before the
\* append-only version, the directory offset is read
readHeader(failAt, what, version, appendOnly) ==
  IF failAt = what \o " header" THEN [err |-> TRUE, version |-> 0]
  ELSE IF version < appendOnly /\ failAt = what \o " dirOffset"
       THEN [err |-> TRUE, version |-> version]
  ELSE [err |-> FALSE, version |-> version]

OpenReads ==
  {"open tim", "tim header", "tim dirOffset", "open tip", "tip header",
   "tip dirOffset", "none"}

\* lines 114-152: tim is opened and its header read, then tip
OpenInputs(r, a, failAt, timVersion, tipVersion) ==
  IF failAt = "open tim"
  THEN [r EXCEPT !.pc = "failed", !.err = Error("io", <<"open tim">>)]
  ELSE
  LET r1 == [r EXCEPT !.in = OpenInput("tim")]
      h1 == readHeader(failAt, "tim", timVersion, BTT_VERSION_APPEND_ONLY)
      r2 == [r1 EXCEPT !.version = h1.version,
                       !.timHeader = [read |-> ~h1.err, version |-> h1.version]]
      r3 == [r2 EXCEPT !.indexIn = OpenInput("tip")]
      h2 == readHeader(failAt, "tip", tipVersion,
                       BTT_INDEX_VERSION_APPEND_ONLY)
      r4 == [r3 EXCEPT !.tipHeader = [read |-> ~h2.err, version |-> h2.version]]
  IN  IF h1.err THEN Fail(r2, Error("io", <<"tim header">>))
      ELSE IF a.indexDivisor = -1 THEN [r2 EXCEPT !.pc = "dir"]
      ELSE IF failAt = "open tip" THEN Fail(r2, Error("io", <<"open tip">>))
      ELSE IF h2.err THEN Fail(r4, Error("io", <<"tip header">>))
      ELSE IF ~VersionsMatch(h2.version, r4.version)
           THEN Fail(r4, Error("mixmatched version files",
                               <<r4.in.name, r4.version,
                                 r4.indexIn.name, h2.version>>))
      ELSE [r4 EXCEPT !.pc = "dir"]

\* the directory is read without the call of postingsReader.Init
ReadDirectoryWithoutInit(r, failAt, numFields) ==
  LET r1 == [r EXCEPT !.dirReads = @ + 1]
  IN  IF failAt = "numFields" THEN Fail(r1, Error("io", <<"numFields">>))
      ELSE IF numFields < 0
           THEN Fail(r1, Error("invalid numFields", <<numFields, r1.in.name>>))
      ELSE [r1 EXCEPT !.pc = "fields", !.numFields = numFields, !.i = 0]

\* lines 154-170: the postings reader is initialised, both inputs are put
\* on their directory (a failure of seekDir is not looked at), the number
\* of fields is read
ReadDirectory(r, failAt, numFields) ==
  LET r1 == [r EXCEPT !.postings.inits = @ + 1, !.dirReads = @ + 1]
  IN  IF failAt = "numFields" THEN Fail(r1, Error("io", <<"numFields">>))
      ELSE IF numFields < 0
           THEN Fail(r1, Error("invalid numFields", <<numFields, r1.in.name>>))
      ELSE [r1 EXCEPT !.pc = "fields", !.numFields = numFields, !.i = 0]

\* lines 339-376
newFieldReader(fieldInfo, numTerms, rootCode, sumTotalTermFreq, sumDocFreq, docCount, hasIndexIn, fstErr) ==
  LET r == [name |-> fieldInfo.name, numTerms |-> numTerms,
            sumTotalTermFreq |-> sumTotalTermFreq,
            sumDocFreq |-> sumDocFreq, docCount |-> docCount,
            rootBlockFP |-> 0, rootCode |-> rootCode, index |-> FALSE]
      n == ReadVLong(rootCode, 0)
  IN  IF numTerms <= 0 THEN [outcome |-> "panic", reader |-> ZeroFieldReader]
      ELSE IF n.err THEN [outcome |-> "error", reader |-> r]
      ELSE [outcome |-> IF hasIndexIn /\ fstErr THEN "error" ELSE "ok",
            reader |-> [r EXCEPT !.rootBlockFP =
                                   Shr(n.val, BTT_OUTPUT_FLAGS_NUM_BITS),
                                 !.index = hasIndexIn /\ ~fstErr]]

\* lines 218-232: the error of the first statistic out of range, if any
CheckStats(r, a, sumTotalTermFreq, sumDocFreq, docCount) ==
  IF docCount < 0 \/ docCount > a.maxDoc
  THEN Error("invalid docCount", <<docCount, a.maxDoc, r.in.name>>)
  ELSE IF sumDocFreq < docCount
       THEN Error("invalid sumDocFreq", <<sumDocFreq, docCount, r.in.name>>)
  ELSE IF sumTotalTermFreq # -1 /\ sumTotalTermFreq < sumDocFreq
       THEN Error("invalid sumTotalTermFreq",
                  <<sumTotalTermFreq, sumDocFreq, r.in.name>>)
  ELSE NoErr

\* a duplicate test that never finds the name
RegisteredNever(r, name) == FALSE

\* line 242: _, ok := fp.fields[fieldInfo.name]
Registered(r, name) == name \in DOMAIN r.fields

\* the reads of one directory entry, in the order of the code
EntryReads ==
  <<"field", "numTerms", "numBytes", "rootCode", "sumTotalTermFreq",
    "sumDocFreq", "docCount", "indexStartFP", "none">>

ReadPos(read) == CHOOSE k \in 1..Len(EntryReads) : EntryReads[k] = read

\* the values a read can give: one value if the entry fails before it (and
\* in CtorField if the code leaves before it, or does not make the read)
ValuesOf(read, failAt, S, unread) ==
  IF ReadPos(read) < ReadPos(failAt) THEN S ELSE {unread}

RootCode == <<6>>

\* lines 173-252: one entry of the directory; e holds the values read,
\* failAt the read that fails
ReadField(r, a, e, failAt) ==
  LET fieldInfo == byNumber[e.field]
      sumTotalTermFreq ==
        IF fieldInfo.docsOnly THEN -1 ELSE e.sumTotalTermFreq
      stats == CheckStats(r, a, sumTotalTermFreq, e.sumDocFreq, e.docCount)
      made == newFieldReader(fieldInfo, e.numTerms, RootCode,
                             sumTotalTermFreq, e.sumDocFreq, e.docCount,
                             a.indexDivisor # -1, e.fstErr)
      failed ==
        /\ failAt # "none"
        /\ ~(failAt = "sumTotalTermFreq" /\ fieldInfo.docsOnly)
        /\ ~(failAt = "indexStartFP" /\ a.indexDivisor = -1)
      r1 == [r EXCEPT !.dirReads = @ + 1, !.entry = NoEntry]
      r2 == [r1 EXCEPT !.entry =
               [read |-> ~failed, name |-> fieldInfo.name,
                docsOnly |-> fieldInfo.docsOnly, numTerms |-> e.numTerms,
                numBytes |-> e.numBytes,
                sumTotalTermFreq |-> sumTotalTermFreq,
                sumDocFreq |-> e.sumDocFreq, docCount |-> e.docCount,
                duplicate |-> fieldInfo.name \in DOMAIN r.fields,
                prior |-> IF fieldInfo.name \in DOMAIN r.fields
                          THEN r.fields[fieldInfo.name]
                          ELSE ZeroFieldReader]]
      r3 == [r2 EXCEPT !.fields =
               (fieldInfo.name :> made.reader) @@ r2.fields]
  IN  IF failAt \in {"field", "numTerms", "numBytes"}
      THEN Fail(r1, Error("io", <<failAt>>))
      ELSE IF e.numBytes < 0
           THEN PanicCtor(r1, "makeslice: len out of range")
      ELSE IF failAt = "rootCode"
              \/ (failAt = "sumTotalTermFreq" /\ ~fieldInfo.docsOnly)
              \/ failAt \in {"sumDocFreq", "docCount"}
           THEN Fail(r1, Error("io", <<failAt>>))
      ELSE IF stats # NoErr THEN Fail(r2, stats)
      ELSE IF failAt = "indexStartFP" /\ a.indexDivisor # -1
           THEN Fail(r2, Error("io", <<failAt>>))
      ELSE IF Registered(r, fieldInfo.name)
           THEN Fail(r2, Error("duplicate field",
                               <<fieldInfo.name, r.in.name>>))
      ELSE IF made.outcome = "panic" THEN PanicCtor(r2, "assert fail")
      ELSE IF made.outcome = "error"
           THEN Fail(r3, Error("io", <<"LoadFST">>))
      ELSE [r3 EXCEPT !.i = @ + 1]

\* lines 255-264: the index input is closed, success is set
Finish(r, a, closeErr) ==
  IF a.indexDivisor # -1
  THEN LET r1 == [r EXCEPT !.indexIn = CloseInput(@)]
       IN  IF closeErr THEN Fail(r1, Error("io", <<"close tip">>))
           ELSE [r1 EXCEPT !.success = TRUE, !.pc = "ready"]
  ELSE [r EXCEPT !.success = TRUE, !.pc = "ready"]

\* lines 311-314: the address of a copy of the map's entry, which is the
\* zero FieldReader for a name that is not in the map
Terms(r, field) ==
  [nil |-> FALSE,
   reader |-> IF field \in DOMAIN r.fields THEN r.fields[field]
              ELSE ZeroFieldReader]

(***************************************************************************)
(* Specification SpecCtor: the construction of a dictionary reader, step   *)
(* by step, then Terms() and Close() on it.                                *)
(***************************************************************************)
CtorArgs == [indexDivisor : {-1, 1}, maxDoc : 0..MaxCount]

Versions == BTT_VERSION_START..BTT_VERSION_CURRENT

InitCtor ==
  /\ dict = 1
  /\ cur = newSegmentTermsEnum(Dicts[1])
  /\ call = NoCall
  /\ seeks = 0
  /\ rd = NewReader
  /\ refs = NoRefs
  /\ ctx = NoCtx
  /\ inp \in CtorArgs
  /\ pair = NoPair
  /\ scan = NoScan
  /\ fr = NoFrame

CtorOpen ==
  /\ rd.pc = "new"
  /\ \E failAt \in OpenReads, timVersion \in Versions, tipVersion \in Versions :
       rd' = OpenInputs(rd, inp, failAt, timVersion, tipVersion)
  /\ UNCHANGED <<dict, cur, call, seeks, inp, pair, scan, fr, refs, ctx>>

CtorDirectory ==
  /\ rd.pc = "dir"
  /\ \E failAt \in {"numFields", "none"}, numFields \in -1..MaxFields :
       rd' = ReadDirectory(rd, failAt, numFields)
  /\ UNCHANGED <<dict, cur, call, seeks, inp, pair, scan, fr, refs, ctx>>

CtorField ==
  /\ rd.pc = "fields"
  /\ rd.i < rd.numFields
  /\ \E failAt \in {EntryReads[k] : k \in 1..Len(EntryReads)} :
     \E field \in ValuesOf("field", failAt, FieldNumbers, 1),
        numTerms \in ValuesOf("numTerms", failAt, 0..MaxCount, 0),
        numBytes \in ValuesOf("numBytes", failAt, {-1, Len(RootCode)}, 0) :
     \E sumTotalTermFreq \in
          IF numBytes < 0 \/ byNumber[field].docsOnly THEN {0}
          ELSE ValuesOf("sumTotalTermFreq", failAt, 0..MaxCount, 0),
        sumDocFreq \in
          IF numBytes < 0 THEN {0}
          ELSE ValuesOf("sumDocFreq", failAt, 0..MaxCount, 0),
        docCount \in
          IF numBytes < 0 THEN {0}
          ELSE ValuesOf("docCount", failAt, -1..MaxCount, 0),
        fstErr \in IF failAt = "none" /\ inp.indexDivisor # -1 /\ numTerms > 0
                      /\ numBytes >= 0
                   THEN BOOLEAN ELSE {FALSE} :
       rd' = ReadField(rd, inp,
                       [field |-> field, numTerms |-> numTerms,
                        numBytes |-> numBytes,
                        sumTotalTermFreq |-> sumTotalTermFreq,
                        sumDocFreq |-> sumDocFreq, docCount |-> docCount,
                        fstErr |-> fstErr],
                       failAt)
  /\ UNCHANGED <<dict, cur, call, seeks, inp, pair, scan, fr, refs, ctx>>

CtorFinish ==
  /\ rd.pc = "fields"
  /\ rd.i >= rd.numFields
  /\ \E closeErr \in BOOLEAN : rd' = Finish(rd, inp, closeErr)
  /\ UNCHANGED <<dict, cur, call, seeks, inp, pair, scan, fr, refs, ctx>>

TermsCall ==
  /\ rd.pc \in {"ready", "closed"}
  /\ \E field \in FieldNames :
       rd' = [rd EXCEPT !.terms =
                [called |-> TRUE, field |-> field,
                 registered |-> field \in DOMAIN rd.fields,
                 expected |-> IF field \in DOMAIN rd.fields
                              THEN rd.fields[field] ELSE ZeroFieldReader,
                 result |-> Terms(rd, field)]]
  /\ UNCHANGED <<dict, cur, call, seeks, inp, pair, scan, fr, refs, ctx>>

CloseCall ==
  /\ rd.pc = "ready"
  /\ rd' = [Close(rd) EXCEPT !.pc = "closed"]
  /\ UNCHANGED <<dict, cur, call, seeks, inp, pair, scan, fr, refs, ctx>>

\* lines 470-474: a cursor of one of the fields clones tim for itself, the
\* only thing a cursor does with the reader's input
CursorInitIndexInput ==
  /\ rd.pc = "ready"
  /\ rd.in.clones < MaxClones
  /\ rd' = [rd EXCEPT !.in = CloneInput(@)]
  /\ UNCHANGED <<dict, cur, call, seeks, inp, pair, scan, fr, refs, ctx>>

NextCtor ==
  \/ CtorOpen
  \/ CtorDirectory
  \/ CtorField
  \/ CtorFinish
  \/ TermsCall
  \/ CursorInitIndexInput
  \/ CloseCall

SpecCtor == InitCtor /\ [][NextCtor]_vars

(***************************************************************************)
(* Properties of SeekExact (specification Spec).                           *)
(***************************************************************************)
Returned(c) == c.ret \in {"true", "false"}

RECURSIVE Lcp(_, _, _)
Lcp(a, b, i) ==
  IF i < Len(a) /\ i < Len(b) /\ a[i + 1] = b[i + 1] THEN Lcp(a, b, i + 1) ELSE i

Max(a, b) == IF a > b THEN a ELSE b

ArcLookupsOfCall == cur.arcLookups - call.arcLookupsBefore

\* C1 (soundness): a SeekExact of a term stored in the field's dictionary,
\* after any sequence of earlier seeks, returns true and leaves Term() equal
\* to the target.
C1_Soundness ==
  (call.n > 0 /\ call.target \in D.terms)
    => (cur.ret = "true"
        /\ Term(cur) = [panic |-> FALSE, bytes |-> call.target])

\* C2 (completeness of negatives): a SeekExact of a byte string that is not
\* a term of the field returns false, whatever seeks preceded it.
C2_NegativesReturnFalse ==
  (call.n > 0 /\ call.target \notin D.terms) => cur.ret = "false"

\* C3 (determinism): the outcome of SeekExact(t) and Term() after it are the
\* same on a cursor with a history of seeks as on a fresh cursor.
C3_Determinism ==
  call.n > 0 =>
    LET fresh == SeekExact(newSegmentTermsEnum(D), D, call.target)
    IN  /\ cur.ret = fresh.ret
        /\ Returned(cur) => Term(cur) = Term(fresh)

\* C4 (FST-proved absence does no tim I/O): when the descent stops, by index
\* exhaustion or by target exhaustion, on a current frame whose hasTerms is
\* false, the call returns false and has neither cloned tim nor made a Seek
\* or a Read on it.
C4_FastMissNoTimIO ==
  (call.n > 0 /\ cur.stop # "none" /\ ~cur.landHasTerms)
    => /\ cur.ret = "false"
       /\ cur.timOps = call.timOpsBefore
       /\ cur.inOpen = call.inOpenBefore

\* the descent stopped on a frame without terms and the call returned false
C4_Witness ==
  /\ call.n > 1
  /\ cur.stop = "checked: index exhausted"
  /\ ~cur.landHasTerms
  /\ cur.ret = "false"
  /\ cur.currentFrame > 0

\* C5 as stated (common-prefix reuse): the second of two consecutive seeks
\* makes at most max(0, len(t2) - lcp(t1, t2)) FindTargetArc calls.
C5_ReuseByTargets ==
  call.n > 1 =>
    ArcLookupsOfCall
      <= Max(0, Len(call.target) - Lcp(call.prevTarget, call.target, 0))

\* C5 amended: the arcs are re-used for the common prefix only as far as the
\* valid index prefix left by the first seek reaches.
C5_ReuseByValidIndexPrefix ==
  call.n > 1 =>
    ArcLookupsOfCall
      <= Len(call.target)
           - Min(call.prevValidIndexPrefix,
                 Lcp(call.prevTarget, call.target, 0))

\* a second seek that re-used an arc and looked up the rest of its target
C5_Witness ==
  /\ call.n > 1
  /\ Returned(cur)
  /\ Min(call.prevValidIndexPrefix, Lcp(call.prevTarget, call.target, 0)) > 0
  /\ ArcLookupsOfCall > 0
  /\ ArcLookupsOfCall
       = Len(call.target)
           - Min(call.prevValidIndexPrefix, Lcp(call.prevTarget, call.target, 0))

(***************************************************************************)
(* Properties of the dictionary reader (specification SpecCtor).           *)
(***************************************************************************)
InputsReleased ==
  /\ rd.in.opened => ~rd.in.open
  /\ rd.indexIn.opened => ~rd.indexIn.open

\* the last directory entry was read in full and breaks no statistic check
EntryStatsValid ==
  /\ rd.entry.docCount >= 0
  /\ rd.entry.docCount <= inp.maxDoc
  /\ rd.entry.sumDocFreq >= rd.entry.docCount
  /\ IF rd.entry.docsOnly THEN rd.entry.sumTotalTermFreq = -1
     ELSE rd.entry.sumTotalTermFreq >= rd.entry.sumDocFreq

EntryIntact == rd.entry.read /\ rd.entry.numBytes >= 0

DocsOnly(name) == \E k \in FieldNumbers :
                    byNumber[k].name = name /\ byNumber[k].docsOnly

\* C6: Terms(fieldName) returns the field reader registered for fieldName,
\* returns nil for every name that is not registered, and never fails.
C6_TermsRegisteredOrNone ==
  rd.terms.called =>
    IF rd.terms.registered
    THEN ~rd.terms.result.nil /\ rd.terms.result.reader = rd.terms.expected
    ELSE rd.terms.result.nil

\* Terms of a registered name gave the registered reader
C6_Witness ==
  /\ rd.terms.called
  /\ rd.terms.registered
  /\ rd.terms.result.reader = rd.terms.expected
  /\ rd.terms.expected.numTerms > 0

\* C7: when the construction fails at any step after tim was opened, tim
\* and, if it was opened, tip are closed when the constructor is left.
C7_FailedConstructionClosesInputs ==
  rd.pc \in {"failed", "panicked"} => InputsReleased

\* a construction that failed on a duplicate field, with both inputs opened
C7_Witness ==
  /\ rd.pc = "failed"
  /\ rd.err.kind = "duplicate field"
  /\ rd.in.opened /\ rd.in.closes = 1
  /\ rd.indexIn.opened /\ rd.indexIn.closes = 1

\* C8: every field reader of a constructed dictionary reader has
\* numTerms > 0, 0 <= docCount <= maxDoc, sumDocFreq >= docCount and
\* sumTotalTermFreq = -1 exactly for a DOCS_ONLY field and otherwise
\* >= sumDocFreq; a directory entry that breaks one of these makes the
\* construction fail with an error value.
C8_FieldInvariantsOrError ==
  /\ rd.pc = "ready" =>
       \A n \in DOMAIN rd.fields :
         LET f == rd.fields[n]
         IN  /\ f.numTerms > 0
             /\ f.docCount >= 0 /\ f.docCount <= inp.maxDoc
             /\ f.sumDocFreq >= f.docCount
             /\ (f.sumTotalTermFreq = -1) <=> DocsOnly(n)
             /\ ~DocsOnly(n) => f.sumTotalTermFreq >= f.sumDocFreq
  /\ (EntryIntact /\ (rd.entry.numTerms <= 0 \/ ~EntryStatsValid))
       => (rd.pc = "failed" /\ rd.err.kind # "none")

\* C9: a directory entry with numTerms = 0 is refused with an error that
\* names the field, the inputs are released and no reader is registered
\* for the field.
C9_EmptyFieldRefusedWithError ==
  (EntryIntact /\ rd.entry.numTerms = 0 /\ EntryStatsValid
     /\ ~rd.entry.duplicate)
    => /\ rd.pc = "failed"
       /\ rd.err.kind # "none"
       /\ \E k \in 1..Len(rd.err.about) : rd.err.about[k] = rd.entry.name
       /\ InputsReleased
       /\ rd.entry.name \notin DOMAIN rd.fields

\* C10: when the version of the tip header differs from the version of the
\* tim header the construction fails with an error that names both files
\* and both versions, the postings reader is not initialised and nothing
\* of the directory is read.
C10_VersionMismatchFailsEarly ==
  (rd.timHeader.read /\ rd.tipHeader.read
     /\ rd.tipHeader.version # rd.timHeader.version)
    => /\ rd.pc = "failed"
       /\ rd.err = Error("mixmatched version files",
                         <<"tim", rd.timHeader.version,
                           "tip", rd.tipHeader.version>>)
       /\ rd.postings.inits = 0
       /\ rd.dirReads = 0

\* a construction refused for its versions
C10_Witness ==
  /\ rd.pc = "failed"
  /\ rd.err.kind = "mixmatched version files"
  /\ rd.tipHeader.version # rd.timHeader.version

C12_InputLifecycle ==
  /\ rd.pc = "ready"
       => /\ rd.in.open /\ rd.in.closes = 0
          /\ rd.indexIn.opened
               => (~rd.indexIn.open /\ rd.indexIn.closes = 1)
  /\ rd.pc = "closed" => (~rd.in.open /\ rd.in.closes = 1)

\* a reader built with its index, cloned by cursors, then closed
C12_Witness ==
  /\ rd.pc = "closed"
  /\ rd.in.clones = MaxClones
  /\ rd.in.closes = 1
  /\ rd.indexIn.opened /\ rd.indexIn.closes = 1
  /\ rd.numFields > 0

C14_LoadErrorPropagated ==
  (call.n > 0 /\ cur.loadErr) => (cur.ret = "error" /\ cur.lStatus = "")

\* a call in which loadBlock returned an I/O error
C14_Witness == call.n > 0 /\ cur.loadErr /\ cur.timOps > call.timOpsBefore

\* C15 (same-term shortcut): a SeekExact call on a positioned cursor whose
\* term exists, for a target equal to the current term, returns true, reads
\* nothing from tim, looks up no arc, and leaves the current frame, the
\* frames, the term buffer and validIndexPrefix as they were.
C15_SameTermShortcut ==
  [][(/\ seeks' = seeks + 1
      /\ cur.currentFrame # StaticOrd
      /\ cur.termExists
      /\ call'.target = cur.term)
       => /\ cur'.ret = "true"
          /\ cur'.timOps = cur.timOps
          /\ cur'.inOpen = cur.inOpen
          /\ cur'.arcLookups = cur.arcLookups
          /\ cur'.currentFrame = cur.currentFrame
          /\ cur'.stack = cur.stack
          /\ cur'.staticFrame = cur.staticFrame
          /\ cur'.term = cur.term
          /\ cur'.validIndexPrefix = cur.validIndexPrefix]_vars

\* after a recovered panic of the leaf scan the cursor is positioned with
\* termExists set; the next call asks for the term it holds and is answered
\* by the shortcut
C15_Witness ==
  /\ cur.ret = "true" /\ cur.why = "target is same as current"
  /\ call.target = cur.term /\ call.target = call.prevTerm
  /\ cur.currentFrame # StaticOrd /\ cur.termExists
  /\ cur.timOps = call.timOpsBefore /\ cur.timOps > 0

\* unsigned byte-lexicographic order, a proper prefix being the smaller
RECURSIVE LexLess(_, _)
LexLess(a, b) ==
  IF b = <<>> THEN FALSE
  ELSE IF a = <<>> THEN TRUE
  ELSE IF Head(a) # Head(b) THEN Head(a) < Head(b)
  ELSE LexLess(Tail(a), Tail(b))

\* the terms of a leaf block, in the order of its entries
BlockTerms(b) == [i \in 1..Len(b.suffixes) |-> b.prefix \o b.suffixes[i]]

\* the status the scan of block b for target ends with, by the order
ScanStatus(b, target) ==
  LET ts == BlockTerms(b)
      notBefore == {i \in 1..Len(ts) : ~LexLess(ts[i], target)}
      first == CHOOSE i \in notBefore : \A j \in notBefore : i <= j
  IN  IF notBefore = {} THEN "END"
      ELSE IF ts[first] = target THEN "FOUND" ELSE "NOT_FOUND"

\* C16 (leaf scan ordering): the scan of a loaded leaf block passes the
\* entries smaller than the target in unsigned lexicographic order and ends
\* with FOUND at an entry equal to the target, NOT_FOUND at the first
\* greater entry, END when every entry is smaller.
C16_LeafScanOrdering ==
  (scan.block # 0 /\ scan.called)
    => scan.c.lStatus = ScanStatus(LeafBlocks[scan.block], scan.target)

\* the block abc, abca, abcb, abcc scanned for abcd
C16_Witness ==
  /\ scan.block = 1 /\ scan.called
  /\ scan.target = <<1, 2, 3, 4>>
  /\ scan.c.lStatus = "NOT_FOUND"

\* C17 (reuse-path compare): on the reuse path the target and the current
\* term are compared in unsigned lexicographic order; a target greater than
\* the term takes the branch that moves to the last frame without rewinding
\* it, a smaller target the branch that sets targetBeforeCurrentLength to 0
\* and rewinds.
C17_ReuseCompareOrder ==
  (call.n > 0 /\ cur.moved # "")
    => /\ LexLess(call.prevTerm, call.target) => cur.moved = "after"
       /\ LexLess(call.target, call.prevTerm)
            => (cur.moved = "before" /\ cur.targetBeforeCurrentLength = 0)

\* the cursor holds the term <<2>> and is asked for a greater target
C17_Witness ==
  /\ call.n > 0 /\ cur.moved = "before"
  /\ LexLess(call.prevTerm, call.target)
  /\ Len(call.prevTerm) > 0

\* the scan has ended by a branch that runs fillTerm
Filled == scan.block # 0 /\ scan.called /\ scan.c.lStatus \in {"FOUND", "END"}

\* C18 (fillTerm): after fillTerm the term the cursor shows is prefix +
\* suffix bytes long: the prefix bytes it had, then the suffix bytes of the
\* entry; nothing of a longer previous term is left behind them.
C18_FillTermExactLength ==
  Filled =>
    LET f == CurFrame(scan.c)
    IN  /\ ~Term(scan.c).panic
        /\ Term(scan.c).bytes =
             SubSeq(scan.term0, 1, f.prefix)
               \o Slice(f.suffixBytes, f.startBytePos, f.startBytePos + f.suffix)

\* abca found in the block abc, abca, abcb, abcc by a cursor whose term
\* buffer held a longer term
C18_Witness ==
  /\ Filled /\ scan.block = 1 /\ scan.c.lStatus = "FOUND"
  /\ scan.target = <<1, 2, 3, 1>>
  /\ Len(scan.term0) > Len(scan.target)
  /\ Len(scan.c.term) = Len(scan.term0)

\* C19 (NOT_FOUND fills the term): when the leaf scan ends with NOT_FOUND
\* the term buffer holds the entry the scan stopped at, the block prefix
\* followed by that entry's suffix.
C19_NotFoundFillsTerm ==
  (scan.block # 0 /\ scan.called /\ scan.c.lStatus = "NOT_FOUND")
    => Term(scan.c).bytes
         = BlockTerms(LeafBlocks[scan.block])[CurFrame(scan.c).nextEnt]

\* abcaa looked for in the block abc, abca, abcb, abcc by a cursor whose
\* term buffer holds the target: the scan stops at abcb, the first greater
\* entry, and the buffer still holds abcaa
C19_Witness ==
  /\ scan.block = 1 /\ scan.called /\ scan.c.lStatus = "NOT_FOUND"
  /\ scan.target = <<1, 2, 3, 1, 1>>
  /\ scan.term0 = scan.target
  /\ CurFrame(scan.c).nextEnt = 3
  /\ scan.c.term = scan.target

\* C20 (term buffer bounds): no SeekExact call, on a new cursor or on a used
\* one, ends in an index out of range on the term buffer: every label copy
\* term[i] = target[i] made while following an arc succeeds.
C20_TermIndexInBounds ==
  call.n > 0 => ~(cur.ret = "panic" /\ cur.why = "index out of range: term")

\* the first call on a new cursor follows an arc
C20_Witness ==
  /\ call.n = 1 /\ Len(call.target) > 0 /\ call.prevTerm = <<>>
  /\ cur.arcLookups > 0
  /\ cur.ret = "panic" /\ cur.why = "index out of range: term"

\* the arcs of the positions below validIndexPrefix carry the bytes of the
\* term
ArcsMatchTerm(c) ==
  \A i \in 0..(c.validIndexPrefix - 1) :
    /\ i + 2 <= Len(c.arcs)
    /\ i + 1 <= Len(c.term)
    /\ c.arcs[i + 2].label = c.term[i + 1]

\* C21 (arc stack consistency): after every SeekExact that returns,
\* arcs[1+i].Label = term[i] for every i below validIndexPrefix, and no
\* SeekExact fails the assertion on arc.Label in its reuse loop.
C21_ArcStackConsistent ==
  /\ Returned(cur) => ArcsMatchTerm(cur)
  /\ cur.why \notin {"assert fail: arc.label", "index out of range: arcs"}

\* a call that returned with a non-empty valid index prefix, made on a
\* cursor that re-used the arcs of the call before
C21_Witness ==
  /\ Returned(cur) /\ cur.validIndexPrefix > 0
  /\ call.prevValidIndexPrefix > 0
  /\ Lcp(call.prevTerm, call.target, 0) > 0

\* the prefixes of the frames of the stack, from the first to the n-th, start
\* at 0 and increase strictly
PrefixesIncrease(c, n) ==
  /\ n > 0 => c.stack[1].prefix = 0
  /\ \A k \in 1..(n - 1) : c.stack[k].prefix < c.stack[k + 1].prefix

\* C22 (frame stack prefixes): after every SeekExact the whole frame stack
\* has stack[0].prefix = 0 and strictly increasing prefixes.
C22_StackPrefixesIncrease ==
  (call.n > 0 /\ Returned(cur)) => PrefixesIncrease(cur, Len(cur.stack))

\* C22 as the code has it: after every SeekExact the frames from stack[0] to
\* the current frame have stack[0].prefix = 0 and strictly increasing
\* prefixes; the frames above the current frame are left from earlier seeks.
C22_PrefixesIncreaseToCurrent ==
  (call.n > 0 /\ Returned(cur))
    => /\ cur.currentFrame >= 0 /\ cur.currentFrame < Len(cur.stack)
       /\ PrefixesIncrease(cur, cur.currentFrame + 1)

\* the frame of prefix 2 1 is pushed at ord 1 below the frame of prefix 1 1
\* that an earlier seek left at ord 2
C22_Witness ==
  /\ Returned(cur) /\ Len(cur.stack) = 3 /\ cur.currentFrame = 1
  /\ cur.stack[2].prefix = 2 /\ cur.stack[3].prefix = 2
  /\ call.target = <<2, 1>>

\* C23 (current frame on the stack): after the first SeekExact that returns,
\* and after every later one, currentFrame.ord is the index of a frame of
\* the stack and that frame carries this ord; the cursor is not on the
\* static frame again.
C23_CurrentFrameOnStack ==
  (call.n > 0 /\ Returned(cur))
    => /\ cur.currentFrame # StaticOrd
       /\ cur.currentFrame >= 0 /\ cur.currentFrame < Len(cur.stack)
       /\ CurFrame(cur).ord = cur.currentFrame

\* a later call that moved the cursor back from a deeper frame to the root
C23_Witness ==
  /\ call.n > 2 /\ Returned(cur) /\ call.prevRet = "false"
  /\ cur.currentFrame = 0 /\ Len(cur.stack) = 3
  /\ cur.stack[1].ord = 0

\* the frame a push works on, as it was before the push: the frame of the
\* stack above the current one, or a new frame when the stack ends there
PushedBefore ==
  LET ord == fr.pre.currentFrame + 1
  IN  IF ord < Len(fr.pre.stack) THEN fr.pre.stack[ord + 1] ELSE newFrame(ord)

PushedAfter == fr.c.stack[fr.pre.currentFrame + 2]

\* the file pointer of the block pushed, from the output of the index
PushedFP ==
  Shr(ReadVLong(GetFSTOutput(D, fr.arg).bytes, 0).val, BTT_OUTPUT_FLAGS_NUM_BITS)

PushReuses ==
  fr.op = "push" /\ PushedBefore.fpOrig = PushedFP /\ PushedBefore.nextEnt # -1

\* C24 (pushFrameAt): pushing the block (fp, length) on the frame above the
\* current one reuses it when its fpOrig is fp and it is loaded: it is
\* rewound exactly when its prefix is above targetBeforeCurrentLength, and
\* length is its prefix; otherwise the frame is made unloaded with nextEnt
\* -1, prefix length, fpOrig = fp = the block's, lastSubFP -1 and
\* termBlockOrd 0.
C24_PushFrameAt ==
  fr.op = "push" =>
    IF PushReuses
    THEN /\ fr.c.ret = "none"
         /\ Len(fr.arg) = PushedBefore.prefix
         /\ PushedAfter.prefix = PushedBefore.prefix
         /\ PushedAfter.fpOrig = PushedFP
         /\ IF PushedBefore.prefix > fr.pre.targetBeforeCurrentLength
            THEN PushedAfter = rewind([PushedAfter EXCEPT
                                         !.nextEnt = PushedBefore.nextEnt,
                                         !.fp = PushedBefore.fp])
                 /\ PushedAfter.nextEnt = -1
            ELSE /\ PushedAfter.nextEnt = PushedBefore.nextEnt
                 /\ PushedAfter.fp = PushedBefore.fp
                 /\ PushedAfter.entCount = PushedBefore.entCount
                 /\ PushedAfter.suffixPos = PushedBefore.suffixPos
    ELSE /\ fr.c.ret = "none"
         /\ PushedAfter.nextEnt = -1
         /\ PushedAfter.prefix = Len(fr.arg)
         /\ PushedAfter.fpOrig = PushedFP /\ PushedAfter.fp = PushedFP
         /\ PushedAfter.lastSubFP = -1
         /\ PushedAfter.termBlockOrd = 0

\* a block that was pushed and loaded is pushed again after the cursor has
\* moved back to the frame below it, with targetBeforeCurrentLength at its
\* prefix: it is reused as it is, not rewound
C24_Witness ==
  /\ PushReuses
  /\ PushedBefore.entCount > 0 /\ PushedBefore.nextEnt = 0
  /\ PushedBefore.prefix = 2 /\ fr.pre.targetBeforeCurrentLength = 2
  /\ PushedAfter.nextEnt = 0

\* the frame rewound by the last operation, before and after it
RewoundBefore == CurFrame(fr.pre)

RewoundAfter == CurFrame(fr.c)

\* the output of the index for the block of the rewound frame: the bytes
\* given to setFloorData when the frame was pushed
RewoundFrameData ==
  GetFSTOutput(D, SubSeq(fr.pre.term, 1, RewoundBefore.prefix)).bytes

\* C25 (rewind): after rewind the frame has fp = fpOrig, nextEnt = -1 and
\* hasTerms = hasTermsOrig; a floor frame has numFollowFloorBlocks and
\* nextFloorLabel as the floor data given at the push start (a vInt, then a
\* byte, after the block code); every field other than fp, nextEnt,
\* hasTerms and the floor cursor and its two values is as before, and a
\* second rewind changes nothing.
C25_RewindRestores ==
  fr.op = "rewind" =>
    /\ RewoundAfter.fp = RewoundBefore.fpOrig
    /\ RewoundAfter.nextEnt = -1
    /\ RewoundAfter.hasTerms = RewoundBefore.hasTermsOrig
    /\ RewoundBefore.isFloor =>
         LET code == ReadVLong(RewoundFrameData, 0)
             n == ReadVLong(RewoundFrameData, code.pos)
             b == ReadByte(RewoundFrameData, n.pos)
         IN  /\ RewoundAfter.numFollowFloorBlocks = n.val
             /\ RewoundAfter.nextFloorLabel = b.val
    /\ [RewoundAfter EXCEPT
          !.fp = RewoundBefore.fp, !.nextEnt = RewoundBefore.nextEnt,
          !.hasTerms = RewoundBefore.hasTerms,
          !.floorPos = RewoundBefore.floorPos,
          !.numFollowFloorBlocks = RewoundBefore.numFollowFloorBlocks,
          !.nextFloorLabel = RewoundBefore.nextFloorLabel] = RewoundBefore
    /\ ~RewoundBefore.isFloor =>
         /\ RewoundAfter.floorPos = RewoundBefore.floorPos
         /\ RewoundAfter.numFollowFloorBlocks = RewoundBefore.numFollowFloorBlocks
         /\ RewoundAfter.nextFloorLabel = RewoundBefore.nextFloorLabel
    /\ rewind(RewoundAfter) = RewoundAfter
    /\ fr.c.stack = [fr.pre.stack EXCEPT ![fr.pre.currentFrame + 1] = RewoundAfter]

\* a frame that was pushed above the root and whose block was loaded is
\* rewound: it is unloaded, and keeps the entries it had read
C25_Witness ==
  /\ fr.op = "rewind"
  /\ RewoundBefore.ord > 0 /\ RewoundBefore.nextEnt = 0
  /\ RewoundBefore.entCount > 0
  /\ RewoundAfter.nextEnt = -1 /\ RewoundAfter.entCount = RewoundBefore.entCount

\* the frame given to scanToFloorFrame by the last operation, and after it
FloorBefore == CurFrame(fr.pre)

FloorAfter == CurFrame(fr.c)

\* the file pointer of the floor sub-block of frame f that holds label: the
\* floor data is read from pos, left sub-blocks to follow, one code (the
\* distance from fpOrig, doubled, plus hasTerms) and the label of the next
\* sub-block at a time, until the next label is above the one looked for
RECURSIVE FloorBlockFP(_, _, _, _)
FloorBlockFP(f, label, pos, left) ==
  LET code == ReadVLong(f.floorData, pos)
      fp == f.fpOrig + Shr(code.val, 1)
      next == ReadByte(f.floorData, code.pos)
  IN  IF left <= 1 THEN fp
      ELSE IF label < next.val THEN fp
      ELSE FloorBlockFP(f, label, next.pos, left - 1)

\* C26 (scanToFloorFrame): the cursor is unchanged when the frame is not a
\* floor frame, when len(target) <= prefix or when target[prefix] is below
\* nextFloorLabel; otherwise the call returns with fp at the floor sub-block
\* whose labels hold target[prefix], unloaded (nextEnt = -1) when fp changed
\* and otherwise loaded as before.
C26_FloorSelection ==
  fr.op = "scanFloor" =>
    IF \/ ~FloorBefore.isFloor
       \/ Len(fr.arg) <= FloorBefore.prefix
       \/ fr.arg[FloorBefore.prefix + 1] < FloorBefore.nextFloorLabel
    THEN fr.c = fr.pre
    ELSE LET fp == FloorBlockFP(FloorBefore, fr.arg[FloorBefore.prefix + 1],
                                FloorBefore.floorPos,
                                FloorBefore.numFollowFloorBlocks)
         IN  /\ Running(fr.c)
             /\ FloorAfter.fp = fp
             /\ FloorAfter.nextEnt
                  = (IF fp # FloorBefore.fp THEN -1 ELSE FloorBefore.nextEnt)

\* a floor frame asked for a label below its next floor label: nothing moves
C26_Witness ==
  /\ fr.op = "scanFloor"
  /\ FloorBefore.isFloor
  /\ Len(fr.arg) > FloorBefore.prefix
  /\ fr.arg[FloorBefore.prefix + 1] < FloorBefore.nextFloorLabel
  /\ fr.c = fr.pre

\* the frame given to loadBlock by the last operation, and after it
LoadBefore == CurFrame(fr.pre)

LoadAfter == CurFrame(fr.c)

\* C27 (loadBlock is lazy): loadBlock on a loaded frame (nextEnt # -1) makes
\* no call on the tim input, so none from ReadTermsBlock either, keeps the
\* position of the input and changes no frame (nextEnt, entCount, the
\* suffix and stats bytes and their cursors); a loadBlock that returns
\* without an error leaves the frame loaded, and only a push or a rewind
\* takes a loaded frame back to nextEnt = -1: a frame reads its block at
\* most once between two of them.
C27_LoadBlockLazy ==
  /\ (fr.op = "load" /\ LoadBefore.nextEnt # -1) =>
       /\ fr.c.timOps = fr.pre.timOps
       /\ fr.c.inPos = fr.pre.inPos
       /\ fr.c.stack = fr.pre.stack
       /\ Running(fr.c) /\ ~fr.c.loadErr
  /\ (fr.op = "load" /\ LoadBefore.nextEnt = -1) =>
       /\ fr.c.timOps > fr.pre.timOps
       /\ (Running(fr.c) /\ ~fr.c.loadErr) => LoadAfter.nextEnt = 0
  /\ fr.op \notin {"idle", "new", "push", "rewind"} =>
       \A k \in 1..Len(fr.pre.stack) :
         fr.pre.stack[k].nextEnt # -1 => fr.c.stack[k].nextEnt # -1

\* loadBlock is called on a frame whose block was read and whose scan has
\* gone past the first entry
C27_Witness ==
  /\ fr.op = "load"
  /\ LoadBefore.nextEnt > 0 /\ LoadBefore.entCount > 0
  /\ fr.pre.timOps > 0
  /\ LoadAfter.nextEnt = LoadBefore.nextEnt

\* the block of tim at fp, decoded by its layout: two codes, the suffix
\* bytes, the length of the stats and the stats, the length of the postings
\* metadata and the metadata
BlockLayout(tim, fp) ==
  LET code1 == ReadVLong(tim, fp)
      code2 == ReadVLong(tim, code1.pos)
      suffixLen == Shr(code2.val, 1)
      statsLen == ReadVLong(tim, code2.pos + suffixLen)
      metaLen == ReadVLong(tim, statsLen.pos + statsLen.val)
  IN  [ entCount |-> Shr(code1.val, 1), isLastInFloor |-> code1.val % 2 = 1,
        isLeafBlock |-> code2.val % 2 = 1,
        suffixes |-> Slice(tim, code2.pos, code2.pos + suffixLen),
        stats |-> Slice(tim, statsLen.pos, statsLen.pos + statsLen.val),
        end |-> metaLen.pos + metaLen.val ]

\* C28 (loadBlock decodes the block): loadBlock on an unloaded frame whose
\* fp is at a block of tim returns without an error, with entCount,
\* isLastInFloor and isLeafBlock of the two codes, the suffix bytes and the
\* stats bytes of the block at the start of their buffers, nextEnt = 0, the
\* suffix cursor at 0, and fpEnd and the input right after the postings
\* metadata of the block.
C28_LoadBlockLayout ==
  (fr.op = "load" /\ LoadBefore.nextEnt = -1) =>
    LET b == BlockLayout(D.tim, LoadBefore.fp)
    IN  /\ Running(fr.c) /\ ~fr.c.loadErr
        /\ LoadAfter.entCount = b.entCount
        /\ LoadAfter.isLastInFloor = b.isLastInFloor
        /\ LoadAfter.isLeafBlock = b.isLeafBlock
        /\ SubSeq(LoadAfter.suffixBytes, 1, Len(b.suffixes)) = b.suffixes
        /\ SubSeq(LoadAfter.statBytes, 1, Len(b.stats)) = b.stats
        /\ LoadAfter.nextEnt = 0
        /\ LoadAfter.suffixPos = 0
        /\ LoadAfter.fpEnd = b.end
        /\ fr.c.inPos = b.end

\* a block is loaded from a tim input that goes on for more than the length
\* of the two buffers after it: the header and the suffix bytes are the
\* block's and the frame is loaded
C28_Witness ==
  /\ fr.op = "load" /\ LoadBefore.nextEnt = -1
  /\ Running(fr.c) /\ ~fr.c.loadErr
  /\ LoadAfter.nextEnt = 0 /\ LoadAfter.suffixPos = 0
  /\ LoadAfter.entCount = BlockLayout(D.tim, LoadBefore.fp).entCount
  /\ LoadAfter.entCount > 0
  /\ SubSeq(LoadAfter.suffixBytes, 1,
            Len(BlockLayout(D.tim, LoadBefore.fp).suffixes))
       = BlockLayout(D.tim, LoadBefore.fp).suffixes

FrameInRange(f) == f.nextEnt = -1 \/ (0 <= f.nextEnt /\ f.nextEnt <= f.entCount)

FramesInRange(c) ==
  /\ FrameInRange(c.staticFrame)
  /\ \A k \in 1..Len(c.stack) : FrameInRange(c.stack[k])

\* C29 (range of nextEnt): every frame of every cursor has nextEnt = -1 or
\* 0 <= nextEnt <= entCount, and after the leaf scan the suffix cursor is
\* not behind the end of the suffixes of the block.
C29_NextEntInRange ==
  /\ FramesInRange(cur)
  /\ fr.op # "idle" => FramesInRange(fr.c)
  /\ scan.block # 0 =>
       /\ FramesInRange(scan.c)
       /\ CurFrame(scan.c).suffixPos
            <= Len(EncodeSuffixes(LeafBlocks[scan.block].suffixes))

\* the scan has gone through a block of two entries, both before the target:
\* nextEnt stands at entCount
C29_Witness ==
  /\ scan.block # 0 /\ scan.called
  /\ scan.c.lStatus = "END"
  /\ CurFrame(scan.c).entCount = 2
  /\ CurFrame(scan.c).nextEnt = 2

\* C30 (postingsReader.Init once): the constructor has not called Init
\* before the headers are read and has called it once from the reading of
\* the directory on; when it was called the tim header, and the tip header
\* when the index is opened, had been read without error, with matching
\* versions; as long as it was not called no field entry has been read; and
\* Terms, the clone a cursor takes of tim and Close leave the count at one.
C30_PostingsInitOnce ==
  /\ rd.pc \in {"new", "dir"} => rd.postings.inits = 0
  /\ rd.pc \in {"fields", "ready", "closed"} => rd.postings.inits = 1
  /\ rd.pc \in {"failed", "panicked"} => rd.postings.inits <= 1
  /\ (rd.pc # "idle" /\ rd.postings.inits = 1) =>
       /\ rd.timHeader.read
       /\ inp.indexDivisor # -1 =>
            (rd.tipHeader.read /\ rd.tipHeader.version = rd.timHeader.version)
  /\ (rd.pc # "idle" /\ rd.postings.inits = 0) =>
       (rd.entry = NoEntry /\ rd.fields = NoFields /\ rd.i = 0)

\* a reader built with its index, with a field read from the directory, was
\* asked for Terms, gave its input to a cursor to clone and was closed
C30_Witness ==
  /\ rd.pc = "closed"
  /\ rd.postings.inits = 1
  /\ inp.indexDivisor # -1
  /\ rd.i >= 1
  /\ rd.terms.called
  /\ rd.in.clones >= 1

\* frame ord of cursor c is a seek frame for printSeekState: no frame below
\* it has its prefix at validIndexPrefix
IsSeekFrame(c, ord) ==
  \A k \in 0..(ord - 1) : c.stack[k + 1].prefix # c.validIndexPrefix

\* the code the index holds for the block of prefix term[0:prefix] of f
StoredCode(c, f) ==
  ReadVLong(GetFSTOutput(D, SubSeq(c.term, 1, f.prefix)).bytes, 0).val

\* C31 (output flags): on a cursor that can be given the next SeekExact,
\* every frame up to currentFrame that is a seek frame and not a floor frame
\* has a block prefix that is final in the index, with fp = code >>> 2,
\* hasTerms = bit 1 and isFloor = bit 0 of the code stored there, and
\* (fp << 2) + flags is that code; the root frame has the fp newFieldReader
\* takes from the root code; no SeekExact ends with "seek state is broken".
C31_OutputFlagsRoundTrip ==
  /\ cur.why \notin {"seek state is broken: prefix is not final in index",
                     "seek state is broken: output code"}
  /\ (Alive(cur) /\ cur.currentFrame # StaticOrd) =>
       /\ cur.stack[1].fpOrig
            = Shr(ReadVLong(FirstArc(D).out \o FirstArc(D).nfo, 0).val,
                  BTT_OUTPUT_FLAGS_NUM_BITS)
       /\ \A ord \in 0..cur.currentFrame :
            LET f == cur.stack[ord + 1]
            IN  (IsSeekFrame(cur, ord) /\ ~f.isFloor) =>
                  /\ f.prefix <= Len(cur.term)
                  /\ ~GetFSTOutput(D, SubSeq(cur.term, 1, f.prefix)).nil
                  /\ f.fp = StoredCode(cur, f) \div 4
                  /\ f.hasTerms = ((StoredCode(cur, f) \div 2) % 2 = 1)
                  /\ f.isFloor = (StoredCode(cur, f) % 2 = 1)
                  /\ f.fp * 4 + (IF f.hasTerms THEN 2 ELSE 0)
                       + (IF f.isFloor THEN 1 ELSE 0) = StoredCode(cur, f)

\* a call made on a cursor that had returned from an earlier call (so the
\* seek state was checked at its start) has returned on a seek frame above
\* the root that is not a floor frame
C31_Witness ==
  /\ call.n >= 2
  /\ cur.ret \in {"true", "false"}
  /\ cur.currentFrame >= 1
  /\ IsSeekFrame(cur, cur.currentFrame)
  /\ ~CurFrame(cur).isFloor
  /\ CurFrame(cur).fp > 0
  /\ call.prevRet \in {"true", "false"}

(***************************************************************************)
(* Specification SpecRefs: the reference count of IndexReaderImpl          *)
(* (reader.go).  Three readers in a chain, reader 2 registered as parent   *)
(* of reader 1 and reader 3 as parent of reader 2; goroutines call Close,  *)
(* decRef and ensureOpen on them, one statement at a time.  A panic is the *)
(* outcome of the call it ends: the goroutine recovers it and goes on.     *)
(* A goroutine that is not in a call (pc = "idle") keeps op, r and out of  *)
(* its last call, and inClose tells whether that call was a Close that    *)
(* went on to decRef.                                                      *)
(* kind[p] is the dynamic type under which parent p was registered:        *)
(* newBaseCompositeReader registers the *BaseCompositeReader (line 1603),  *)
(* another caller may register the *IndexReaderImpl itself; the two        *)
(* parents of a run are registered the same way.                           *)
(***************************************************************************)
ReaderIds == {1, 2, 3}

ParentKinds == {"*BaseCompositeReader", "*IndexReaderImpl"}

\* the goroutines that use the readers
Threads == {1, 2}

\* lines 34-40; lock is the goroutine that holds r.lock, 0 for none;
\* doCloses, putBacks and closeDecRefs count the calls of doClose, the
\* references put back after a doClose that panicked and the calls of
\* decRef made by Close
newIndexReader(parents) ==
  [refCount |-> 1, closed |-> FALSE, closedByChild |-> FALSE,
   parentReaders |-> parents, lock |-> 0, doCloses |-> 0, putBacks |-> 0,
   closeDecRefs |-> 0]

IdleThread ==
  [op |-> "", r |-> 0, pc |-> "idle", inClose |-> FALSE, out |-> "",
   doCloseOut |-> ""]

InitRefs ==
  /\ dict = 1
  /\ cur = newSegmentTermsEnum(Dicts[1])
  /\ call = NoCall
  /\ seeks = 0
  /\ rd = NoReader
  /\ inp = <<>>
  /\ pair = NoPair
  /\ scan = NoScan
  /\ fr = NoFrame
  /\ ctx = NoCtx
  /\ \E k \in ParentKinds :
       refs = [on |-> TRUE,
               readers |-> [r \in ReaderIds |->
                              newIndexReader(IF r < 3 THEN {r + 1} ELSE {})],
               kind |-> [p \in {2, 3} |-> k],
               th |-> [t \in Threads |-> IdleThread],
               calls |-> 0]

\* the call of goroutine t ends with out; Close gives r.lock back (deferred)
EndRefCall(t, readers, out) ==
  LET me == refs.th[t]
  IN  refs' = [refs EXCEPT
        !.readers = IF me.inClose THEN [readers EXCEPT ![me.r].lock = 0]
                    ELSE readers,
        !.th[t] = [me EXCEPT !.pc = "idle", !.out = out]]

RefsStep(t, readers, pc) ==
  refs' = [refs EXCEPT !.readers = readers, !.th[t].pc = pc]

\* a goroutine starts Close, decRef or ensureOpen on a reader
BeginCall(t, op, r) ==
  /\ refs.on
  /\ refs.th[t].pc = "idle"
  /\ refs.calls < MaxCalls
  /\ refs' = [refs EXCEPT
        !.calls = @ + 1,
        !.th[t] = [IdleThread EXCEPT
                     !.op = op, !.r = r,
                     !.pc = CASE op = "Close" -> "lock"
                              [] op = "decRef" -> "check"
                              [] OTHER -> "ensureOpen"]]
  /\ UNCHANGED <<dict, cur, call, seeks, rd, inp, pair, scan, fr, ctx>>

\* Close without the test of closed: every call goes on to decRef
CloseLockedEveryCall(t) ==
  /\ refs.on
  /\ refs.th[t].pc = "lock"
  /\ LET r == refs.th[t].r
     IN  /\ refs.readers[r].lock = 0
         /\ refs' = [refs EXCEPT !.readers[r].lock = t,
                                 !.readers[r].closed = TRUE,
                                 !.readers[r].closeDecRefs = @ + 1,
                                 !.th[t].pc = "check",
                                 !.th[t].inClose = TRUE]
  /\ UNCHANGED <<dict, cur, call, seeks, rd, inp, pair, scan, fr, ctx>>

\* lines 105-113: Close takes r.lock; the first call sets closed and goes on
\* to decRef, the others return nil
CloseLocked(t) ==
  /\ refs.on
  /\ refs.th[t].pc = "lock"
  /\ LET r == refs.th[t].r
     IN  /\ refs.readers[r].lock = 0
         /\ IF ~refs.readers[r].closed
            THEN refs' = [refs EXCEPT !.readers[r].lock = t,
                                      !.readers[r].closed = TRUE,
                                      !.readers[r].closeDecRefs = @ + 1,
                                      !.th[t].pc = "check",
                                      !.th[t].inClose = TRUE]
            ELSE refs' = [refs EXCEPT !.th[t].pc = "idle",
                                      !.th[t].out = "nil"]
  /\ UNCHANGED <<dict, cur, call, seeks, rd, inp, pair, scan, fr, ctx>>

\* decRef that gives the error after it has taken a reference all the same
DecRefCheckTakesReference(t) ==
  /\ refs.on
  /\ refs.th[t].pc = "check"
  /\ IF refs.readers[refs.th[t].r].refCount <= 0
     THEN EndRefCall(t, [refs.readers EXCEPT ![refs.th[t].r].refCount = @ - 1],
                     "error: this IndexReader is closed")
     ELSE RefsStep(t, refs.readers, "add")
  /\ UNCHANGED <<dict, cur, call, seeks, rd, inp, pair, scan, fr, ctx>>

\* lines 45-47: the plain read of refCount
DecRefCheck(t) ==
  /\ refs.on
  /\ refs.th[t].pc = "check"
  /\ IF refs.readers[refs.th[t].r].refCount <= 0
     THEN EndRefCall(t, refs.readers, "error: this IndexReader is closed")
     ELSE RefsStep(t, refs.readers, "add")
  /\ UNCHANGED <<dict, cur, call, seeks, rd, inp, pair, scan, fr, ctx>>

\* lines 49-50 and 62-66: the atomic decrement and the test of its result
DecRefAdd(t) ==
  /\ refs.on
  /\ refs.th[t].pc = "add"
  /\ LET r == refs.th[t].r
         rc == refs.readers[r].refCount - 1
         readers == [refs.readers EXCEPT ![r].refCount = rc]
     IN  IF rc = 0
         THEN RefsStep(t, readers, "doClose")
         ELSE IF rc < 0
              THEN EndRefCall(t, readers, "panic: too many decRef calls")
         ELSE EndRefCall(t, readers, "nil")
  /\ UNCHANGED <<dict, cur, call, seeks, rd, inp, pair, scan, fr, ctx>>

\* lines 58-59: doClose of the reader returns nil or an error, which decRef
\* does not look at, or panics
DecRefDoClose(t, outcome) ==
  /\ refs.on
  /\ refs.th[t].pc = "doClose"
  /\ refs' = [refs EXCEPT
        !.readers[refs.th[t].r].doCloses = @ + 1,
        !.th[t].doCloseOut = outcome,
        !.th[t].pc = IF outcome = "panic" THEN "putBack" ELSE "report"]
  /\ UNCHANGED <<dict, cur, call, seeks, rd, inp, pair, scan, fr, ctx>>

\* lines 52-57: the deferred function puts the reference back
DecRefPutBack(t) ==
  /\ refs.on
  /\ refs.th[t].pc = "putBack"
  /\ EndRefCall(t, [refs.readers EXCEPT ![refs.th[t].r].refCount = @ + 1,
                                        ![refs.th[t].r].putBacks = @ + 1],
                "panic: doClose")
  /\ UNCHANGED <<dict, cur, call, seeks, rd, inp, pair, scan, fr, ctx>>

\* lines 91-102: every parent is asserted to be a *IndexReaderImpl, marked
\* and reported to in its turn; the readers as the call leaves them, and
\* whether the type assertion panicked
RECURSIVE reportCloseToParentReaders(_, _, _)
reportCloseToParentReaders(readers, kind, r) ==
  IF readers[r].parentReaders = {} THEN [readers |-> readers, panic |-> FALSE]
  ELSE LET p == CHOOSE q \in readers[r].parentReaders : TRUE
       IN  IF kind[p] # "*IndexReaderImpl"
           THEN [readers |-> readers, panic |-> TRUE]
           ELSE reportCloseToParentReaders(
                  [readers EXCEPT ![p].closedByChild = TRUE], kind, p)

\* line 60
DecRefReport(t) ==
  /\ refs.on
  /\ refs.th[t].pc = "report"
  /\ LET rep == reportCloseToParentReaders(refs.readers, refs.kind, refs.th[t].r)
     IN  IF rep.panic
         THEN EndRefCall(t, rep.readers, "panic: interface conversion")
         ELSE RefsStep(t, rep.readers, "notify")
  /\ UNCHANGED <<dict, cur, call, seeks, rd, inp, pair, scan, fr, ctx>>

\* lines 61 and 87-89: notifyReaderClosedListeners is not implemented
DecRefNotify(t) ==
  /\ refs.on
  /\ refs.th[t].pc = "notify"
  /\ EndRefCall(t, refs.readers, "panic: not implemented yet")
  /\ UNCHANGED <<dict, cur, call, seeks, rd, inp, pair, scan, fr, ctx>>

\* lines 69-78
ensureOpen(reader) ==
  IF reader.refCount <= 0 THEN "panic: this IndexReader is closed"
  ELSE IF reader.closedByChild
       THEN "panic: one of its child readers was closed"
  ELSE "nil"

EnsureOpenCall(t) ==
  /\ refs.on
  /\ refs.th[t].pc = "ensureOpen"
  /\ EndRefCall(t, refs.readers, ensureOpen(refs.readers[refs.th[t].r]))
  /\ UNCHANGED <<dict, cur, call, seeks, rd, inp, pair, scan, fr, ctx>>

NextRefs ==
  \/ \E t \in Threads, op \in {"Close", "decRef", "ensureOpen"}, r \in ReaderIds :
       BeginCall(t, op, r)
  \/ \E t \in Threads : CloseLocked(t)
  \/ \E t \in Threads : DecRefCheck(t)
  \/ \E t \in Threads : DecRefAdd(t)
  \/ \E t \in Threads, outcome \in {"nil", "error", "panic"} :
       DecRefDoClose(t, outcome)
  \/ \E t \in Threads : DecRefPutBack(t)
  \/ \E t \in Threads : DecRefReport(t)
  \/ \E t \in Threads : DecRefNotify(t)
  \/ \E t \in Threads : EnsureOpenCall(t)

SpecRefs == InitRefs /\ [][NextRefs]_vars

\* C32 (Close is idempotent): on every reader at most one call of Close has
\* gone on to decRef, and it is the one that set closed; a Close that finds
\* closed set returns nil at once and changes no reader (no refCount, no
\* doClose, no mark).
C32_CloseOnce ==
  /\ [](refs.on =>
          \A r \in ReaderIds :
            /\ refs.readers[r].closeDecRefs <= 1
            /\ refs.readers[r].closed = (refs.readers[r].closeDecRefs = 1))
  /\ [][refs.on =>
          \A t \in Threads :
            (refs.th[t].pc = "lock" /\ refs'.th[t].pc # "lock") =>
              IF refs.readers[refs.th[t].r].closed
              THEN /\ refs'.th[t].pc = "idle"
                   /\ refs'.th[t].out = "nil"
                   /\ ~refs'.th[t].inClose
                   /\ refs'.readers = refs.readers
              ELSE /\ refs'.th[t].pc = "check"
                   /\ refs'.th[t].inClose]_vars

\* two goroutines have called Close on the same reader: one went on to
\* decRef and closed the reader, the other returned nil
C32_Witness ==
  /\ refs.on
  /\ refs.th[1].op = "Close" /\ refs.th[2].op = "Close"
  /\ refs.th[1].r = refs.th[2].r
  /\ refs.th[1].pc = "idle" /\ refs.th[2].pc = "idle"
  /\ refs.th[1].inClose /\ ~refs.th[2].inClose
  /\ refs.th[2].out = "nil"
  /\ refs.readers[refs.th[1].r].refCount = 0
  /\ refs.readers[refs.th[1].r].doCloses = 1

\* C33 (concurrent decRef): refCount is never negative, no decRef ends in
\* the panic "too many decRef calls", and doClose is called once, and once
\* more for each reference put back after a doClose that panicked.
C33_DecRefRaceFree ==
  refs.on =>
    /\ \A r \in ReaderIds :
         /\ refs.readers[r].refCount >= 0
         /\ refs.readers[r].doCloses <= 1 + refs.readers[r].putBacks
    /\ \A t \in Threads : refs.th[t].out # "panic: too many decRef calls"

\* a decRef that starts when the count is already 0 is given the error
C33_Witness ==
  /\ refs.on
  /\ refs.th[2].op = "decRef" /\ refs.th[2].pc = "idle"
  /\ refs.th[2].out = "error: this IndexReader is closed"
  /\ refs.readers[refs.th[2].r].refCount = 0
  /\ refs.readers[refs.th[2].r].doCloses = 1
  /\ refs.th[1].op = "decRef" /\ refs.th[1].r = refs.th[2].r
  /\ refs.th[1].pc = "idle"

\* what decRef can change of a reader
RefState(reader) ==
  [refCount |-> reader.refCount, closedByChild |-> reader.closedByChild,
   doCloses |-> reader.doCloses, putBacks |-> reader.putBacks]

\* C34 (decRef on a closed reader): a decRef that finds refCount <= 0 ends
\* at once with the error "this IndexReader is closed" and leaves refCount,
\* the calls of doClose and the closedByChild marks of all readers as they
\* were; no other decRef ends with that error.
C34_ClosedDecRefNoEffect ==
  [][refs.on =>
       \A t \in Threads :
         /\ (refs.th[t].pc = "check" /\ refs'.th[t].pc # "check") =>
              IF refs.readers[refs.th[t].r].refCount <= 0
              THEN /\ refs'.th[t].pc = "idle"
                   /\ refs'.th[t].out = "error: this IndexReader is closed"
                   /\ \A q \in ReaderIds :
                        RefState(refs'.readers[q]) = RefState(refs.readers[q])
              ELSE refs'.th[t].pc = "add"
         /\ (refs'.th[t].out = "error: this IndexReader is closed"
               /\ refs.th[t].out # "error: this IndexReader is closed") =>
              (refs.th[t].pc = "check"
                 /\ refs.readers[refs.th[t].r].refCount <= 0)]_vars

\* reader 1 was closed by a decRef that stopped before any parent was
\* marked; the decRef after it got the error and reader 2 is still unmarked
C34_Witness ==
  /\ refs.on
  /\ refs.th[2].op = "decRef" /\ refs.th[2].r = 1 /\ refs.th[2].pc = "idle"
  /\ refs.th[2].out = "error: this IndexReader is closed"
  /\ refs.readers[1].refCount = 0
  /\ refs.readers[1].doCloses = 1
  /\ ~refs.readers[2].closedByChild

\* C35 (doClose fails): when the only call made so far is a decRef whose
\* doClose failed, by an error or by a panic, then at its end refCount is 1
\* again and no reader is marked closedByChild.
C35_FailedCloseKeepsReference ==
  refs.on =>
    \A t \in Threads :
      (/\ refs.calls = 1
       /\ refs.th[t].op = "decRef" /\ refs.th[t].pc = "idle"
       /\ refs.th[t].doCloseOut \in {"error", "panic"}) =>
        /\ refs.readers[refs.th[t].r].refCount = 1
        /\ \A q \in ReaderIds : ~refs.readers[q].closedByChild

\* doClose panicked in a first decRef and the reference was put back; the
\* decRef after it called doClose again
C35_Witness ==
  /\ refs.on
  /\ refs.th[1].op = "decRef" /\ refs.th[1].pc = "idle"
  /\ refs.th[1].out = "panic: doClose"
  /\ refs.th[2].op = "decRef" /\ refs.th[2].r = refs.th[1].r
  /\ refs.th[2].doCloseOut # ""
  /\ refs.readers[refs.th[1].r].putBacks = 1
  /\ refs.readers[refs.th[1].r].doCloses = 2
  /\ refs.calls = 2

\* the readers registered above r: its parents, their parents, and so on
RECURSIVE Ancestors(_, _)
Ancestors(readers, r) ==
  readers[r].parentReaders
    \cup UNION {Ancestors(readers, p) : p \in readers[r].parentReaders}

\* C36 (close propagation): when a reader has refCount 0 and no decRef or
\* Close on it is still running, every reader registered above it has
\* closedByChild set; ensureOpen on a reader with closedByChild set does not
\* return normally.
C36_ClosePropagates ==
  refs.on =>
    /\ \A r \in ReaderIds :
         (/\ refs.readers[r].refCount = 0
          /\ \A t \in Threads : refs.th[t].pc = "idle" \/ refs.th[t].r # r) =>
           \A p \in Ancestors(refs.readers, r) : refs.readers[p].closedByChild
    /\ \A p \in ReaderIds :
         refs.readers[p].closedByChild => ensureOpen(refs.readers[p]) # "nil"

\* with parents registered as *IndexReaderImpl: reader 1 was closed, readers
\* 2 and 3 are marked, and ensureOpen on reader 3, which is still open,
\* panicked because of the child
C36_Witness ==
  /\ refs.on
  /\ refs.readers[1].refCount = 0
  /\ refs.readers[2].closedByChild /\ refs.readers[3].closedByChild
  /\ refs.readers[3].refCount = 1
  /\ refs.th[2].op = "ensureOpen" /\ refs.th[2].r = 3
  /\ refs.th[2].pc = "idle"
  /\ refs.th[2].out = "panic: one of its child readers was closed"

(***************************************************************************)
(* Specification SpecContext: the reader context of a top-level composite  *)
(* reader, built by CompositeReaderContextBuilder.  A reader is an atomic  *)
(* reader with its maxDoc or a composite reader with its sequential        *)
(* sub-readers; composites are nested two levels deep.  A leaf of the      *)
(* context is named by path, the indexes of the sub-readers down to it.    *)
(***************************************************************************)
AtomicReaders ==
  {[atomic |-> TRUE, maxDoc |-> n, subs |-> <<>>] : n \in 0..MaxCount}

SeqsOf(S, n) == UNION {[1..k -> S] : k \in 0..n}

CompositeReaders(S) ==
  {[atomic |-> FALSE, maxDoc |-> 0, subs |-> subs] : subs \in SeqsOf(S, MaxSubs)}

TopReaders == CompositeReaders(AtomicReaders \cup CompositeReaders(AtomicReaders))

\* lines 1586-1610 and 1623-1625: MaxDoc() of a composite is the sum over its
\* sub-readers
RECURSIVE ReaderMaxDoc(_)
ReaderMaxDoc(reader) ==
  IF reader.atomic THEN reader.maxDoc
  ELSE LET RECURSIVE SumSubs(_)
           SumSubs(i) == IF i > Len(reader.subs) THEN 0
                         ELSE ReaderMaxDoc(reader.subs[i]) + SumSubs(i + 1)
       IN  SumSubs(1)

\* lines 207-217, with the leaf's place in its parent
newAtomicReaderContext(path, reader, ord, docBase, leafOrd, leafDocBase) ==
  [path |-> path, maxDoc |-> reader.maxDoc, ordInParent |-> ord,
   docBaseInParent |-> docBase, Ord |-> leafOrd, DocBase |-> leafDocBase]

\* lines 1534-1562: the builder b is a value receiver, so every call works
\* on its own copy of leafDocBase while the list of leaves is shared: the
\* call gets the caller's leafDocBase and gives back the leaves only
RECURSIVE build4(_, _, _, _, _, _)
build4(leaves, leafDocBase, path, reader, ord, docBase) ==
  IF reader.atomic
  THEN Append(leaves, newAtomicReaderContext(path, reader, ord, docBase,
                                             Len(leaves), leafDocBase))
  ELSE LET RECURSIVE Subs(_, _, _)
           Subs(ls, i, newDocBase) ==
             IF i > Len(reader.subs) THEN ls
             ELSE Subs(build4(ls, leafDocBase, Append(path, i), reader.subs[i],
                              i - 1, newDocBase),
                       i + 1, ReaderMaxDoc(reader.subs[i]))
       IN  Subs(leaves, 1, 0)

\* lines 1530-1532 and 1496-1506: build() and Leaves() of the context
Leaves(reader) == build4(<<>>, 0, <<>>, reader, 0, 0)

InitContext ==
  /\ dict = 1
  /\ cur = newSegmentTermsEnum(Dicts[1])
  /\ call = NoCall
  /\ seeks = 0
  /\ rd = NoReader
  /\ inp = <<>>
  /\ pair = NoPair
  /\ scan = NoScan
  /\ fr = NoFrame
  /\ refs = NoRefs
  /\ \E reader \in TopReaders :
       ctx = [on |-> TRUE, reader |-> reader, built |-> FALSE, leaves |-> <<>>]

\* lines 1451-1460: Context() of the composite reader builds the context
ContextCall ==
  /\ ctx.on
  /\ ~ctx.built
  /\ ctx' = [ctx EXCEPT !.built = TRUE, !.leaves = Leaves(ctx.reader)]
  /\ UNCHANGED <<dict, cur, call, seeks, rd, inp, pair, scan, fr, refs>>

SpecContext == InitContext /\ [][ContextCall]_vars

\* the paths of the atomic readers below reader, depth first
RECURSIVE LeafPaths(_, _)
LeafPaths(reader, path) ==
  IF reader.atomic THEN <<path>>
  ELSE LET RECURSIVE Cat(_)
           Cat(i) == IF i > Len(reader.subs) THEN <<>>
                     ELSE LeafPaths(reader.subs[i], Append(path, i)) \o Cat(i + 1)
       IN  Cat(1)

RECURSIVE DocsBefore(_, _)
DocsBefore(leaves, k) ==
  IF k <= 1 THEN 0 ELSE leaves[k - 1].maxDoc + DocsBefore(leaves, k - 1)

\* C37 (leaves of the context): the leaves are the atomic readers in depth
\* first order, the k-th with Ord = k and DocBase = the sum of maxDoc of
\* the leaves before it; the last leaf's DocBase + maxDoc is maxDoc of the
\* composite reader.
C37_LeavesDocBase ==
  (ctx.on /\ ctx.built) =>
    /\ [k \in 1..Len(ctx.leaves) |-> ctx.leaves[k].path]
         = LeafPaths(ctx.reader, <<>>)
    /\ \A k \in 1..Len(ctx.leaves) :
         /\ ctx.leaves[k].Ord = k - 1
         /\ ctx.leaves[k].DocBase = DocsBefore(ctx.leaves, k)
         /\ k > 1 => ctx.leaves[k].DocBase >= ctx.leaves[k - 1].DocBase
    /\ Len(ctx.leaves) > 0 =>
         ctx.leaves[Len(ctx.leaves)].DocBase + ctx.leaves[Len(ctx.leaves)].maxDoc
           = ReaderMaxDoc(ctx.reader)

\* the context of a composite with a nested composite was built: the three
\* leaves come depth first with Ord 0, 1, 2
C37_Witness ==
  /\ ctx.on /\ ctx.built
  /\ Len(ctx.leaves) = 3
  /\ [k \in 1..3 |-> ctx.leaves[k].path] = << <<1, 1>>, <<1, 2>>, <<2>> >>
  /\ [k \in 1..3 |-> ctx.leaves[k].Ord] = <<0, 1, 2>>

\* C38 (frame stack): every frame of the stack has ord equal to its index,
\* whatever frame(ord) calls were made, those above len(stack) included, and
\* the assertion of frame() has not failed.
C38_StackOrds ==
  fr.op # "idle" =>
    /\ \A i \in 1..Len(fr.c.stack) : fr.c.stack[i].ord = i - 1
    /\ fr.c.why # "assert fail"

\* a frame(ord) call has grown the stack by three slots or more
C38_Witness ==
  /\ fr.op = "frame"
  /\ fr.arg[1] >= Len(fr.pre.stack) + 2
  /\ Len(fr.c.stack) = fr.arg[1] + 1
  /\ Running(fr.c)

====
